---- MODULE Spec2Model ----
(***************************************************************************)
(* AntsPlatformSpanProcessor (packages/otel/src/span-processor.ts): the    *)
(* span life cycle hooks onStart / onEnd, the per-span asynchronous        *)
(* post-processing processEndedSpan, the pending set pendingEndedSpans and *)
(* flush / forceFlush / shutdown.                                          *)
(*                                                                         *)
(* JavaScript runs every synchronous section to completion; a section ends *)
(* at an await or at the end of a promise reaction.  Each action below is  *)
(* one such section.                                                       *)
(***************************************************************************)
EXTENDS Integers, Sequences, FiniteSets, TLC

\* ---------------------------------------------------------------- bounds
\* spans started and ended, flush calls that may overlap
MaxSpans == 2
MaxFlush == 2
\* flush calls where the interplay of one call with the spans is looked at,
\* spans where the interplay of overlapping flush calls is looked at
MaxSoloFlush == 1
MaxOverlapSpans == 1
\* characters of a string handed to the agent functions
MaxLen == 2

Spans == 1..MaxSpans
Flushes == 1..MaxFlush

\* ------------------------------------------------------- attribute names
OBSERVATION_INPUT == "ants-platform.observation.input"
TRACE_INPUT == "ants-platform.trace.input"
OBSERVATION_OUTPUT == "ants-platform.observation.output"
TRACE_OUTPUT == "ants-platform.trace.output"
OBSERVATION_METADATA == "ants-platform.observation.metadata"
TRACE_METADATA == "ants-platform.trace.metadata"
\* a metadata field flattened to '<metadata key>.<field>' by the attribute
\* builder: it is not one of the mask candidates
OBSERVATION_METADATA_FIELD == "ants-platform.observation.metadata.k"

maskCandidates ==
    { OBSERVATION_INPUT, TRACE_INPUT, OBSERVATION_OUTPUT, TRACE_OUTPUT,
      OBSERVATION_METADATA, TRACE_METADATA }

Keys == maskCandidates \cup { OBSERVATION_METADATA_FIELD }

\* ------------------------------------------------------ attribute values
ABSENT == "<absent>"
RAW == "raw"
RAWMEDIA == "data:image/png;base64,AAAA"
MASKED == "masked"
MEDIAREF == "@@@antsPlatformMedia@@@"
\* a value JSON.stringify throws on (a BigInt, a cyclic object)
UNSERIALIZABLE == "<bigint>"
MASK_FAILED == "<fully masked due to failed mask function>"

Values == { ABSENT, RAW, RAWMEDIA, MASKED, MEDIAREF, UNSERIALIZABLE, MASK_FAILED }

NoAttrs == [k \in Keys |-> ABSENT]

\* the attribute sets a span carries when it is started
AttrProfiles ==
    { [NoAttrs EXCEPT ![OBSERVATION_INPUT] = RAW, ![OBSERVATION_OUTPUT] = RAW],
      [NoAttrs EXCEPT ![OBSERVATION_INPUT] = RAWMEDIA,
                      ![OBSERVATION_METADATA_FIELD] = RAWMEDIA],
      [NoAttrs EXCEPT ![OBSERVATION_METADATA_FIELD] = RAW] }

PredOutcomes == { "true", "false", "throw" }
\* what the mask function does with a value: it returns a redacted value
\* ("ok"), returns the value as it is, having found nothing to redact
\* ("same"), returns a value that cannot be serialized ("bad"), or throws
MaskOutcomes == { "ok", "same", "throw", "bad" }

\* ------------------------------------------------------- agent identity
\* JavaScript values handed to the agent functions: strings (sequences of
\* characters), undefined, and a value that is neither (an object)
Chars == { " ", "a", "b" }
Strings == UNION { [1..n -> Chars] : n \in 0..MaxLen }

Str(v) == [t |-> "string", v |-> v]
UNDEFINED == [t |-> "undefined", v |-> << >>]
OBJECT == [t |-> "object", v |-> << >>]

\* !x is false
Truthy(x) ==
    CASE x.t = "string" -> x.v # << >>
      [] x.t = "undefined" -> FALSE
      [] x.t = "object" -> TRUE

IsString(x) == x.t = "string"

RECURSIVE TrimStart(_)
TrimStart(v) ==
    IF v # << >> /\ Head(v) = " " THEN TrimStart(Tail(v)) ELSE v

RECURSIVE TrimEnd(_)
TrimEnd(v) ==
    IF v # << >> /\ v[Len(v)] = " "
    THEN TrimEnd(SubSeq(v, 1, Len(v) - 1)) ELSE v

\* String.prototype.trim
Trim(v) == TrimEnd(TrimStart(v))

Throw(msg) == [ok |-> FALSE, error |-> msg, value |-> UNDEFINED]
Return(x) == [ok |-> TRUE, error |-> "", value |-> x]

MAX_AGENT_NAME_LENGTH == 255

\* a truncation that cuts one character too many
Truncate_short(v) ==
    IF Len(v) > MAX_AGENT_NAME_LENGTH
    THEN SubSeq(v, 1, MAX_AGENT_NAME_LENGTH - 1) ELSE v

\* generateAgentId: name.slice(0, MAX_AGENT_NAME_LENGTH) when too long
Truncate(v) ==
    IF Len(v) > MAX_AGENT_NAME_LENGTH
    THEN SubSeq(v, 1, MAX_AGENT_NAME_LENGTH) ELSE v

\* a hash that leaves the project id out
blake2b64_nameOnly(agentName, projectId) ==
    [t |-> "digest", v |-> agentName]

\* blake2b64: the digest of the bytes of agentName followed by those of
\* projectId; the model keeps the hashed bytes in place of the digest
blake2b64(agentName, projectId) ==
    [t |-> "digest", v |-> agentName \o projectId]

\* generateAgentId: `!x || typeof x !== "string"`
InputInvalid(x) == ~Truthy(x) \/ ~IsString(x)

generateAgentId(agentName, projectId) ==
    IF InputInvalid(agentName)
    THEN Throw("agentName must be a non-empty string")
    ELSE IF InputInvalid(projectId)
    THEN Throw("projectId must be a non-empty string")
    ELSE Return(blake2b64(Truncate(Trim(agentName.v)), Trim(projectId.v)))

\* a presence check that does not trim
Blank_emptyOnly(x) == ~Truthy(x)

\* `!x || !x.trim()`: "required" is thrown for a falsy or blank value; a
\* truthy value that is no string has no trim method, a TypeError is thrown
Blank(x) == ~Truthy(x) \/ (IsString(x) /\ Trim(x.v) = << >>)

\* a resolution that hashes the display name when there is one
HashedName_display(config) ==
    IF IsString(config.agentDisplayName)
    THEN Str(Trim(config.agentDisplayName.v))
    ELSE Str(Trim(config.agentName.v))

\* the agent name that is hashed: config.agentName.trim()
HashedName(config) == Str(Trim(config.agentName.v))

\* the ResolvedAgentConfig both resolve functions build
Resolved(config, projectId) ==
    LET id == generateAgentId(HashedName(config), Str(Trim(projectId.v)))
    IN  IF ~id.ok THEN id
        ELSE Return([agentId |-> id.value,
                     agentName |-> Str(Trim(config.agentName.v)),
                     agentDisplayName |->
                        IF IsString(config.agentDisplayName)
                        THEN Str(Trim(config.agentDisplayName.v))
                        ELSE UNDEFINED,
                     projectId |-> Str(Trim(projectId.v))])

resolveAgentConfigWithProjectId(config, projectId) ==
    IF Blank(projectId) THEN Throw("projectId is required")
    ELSE IF ~IsString(projectId) THEN Throw("TypeError")
    ELSE IF Blank(config.agentName) THEN Throw("agentName is required")
    ELSE IF ~IsString(config.agentName) THEN Throw("TypeError")
    ELSE Resolved(config, projectId)

\* validateAgentConfig: throws or returns nothing
validateAgentConfig(config) ==
    IF Blank(config.projectId) THEN Throw("projectId is required")
    ELSE IF ~IsString(config.projectId) THEN Throw("TypeError")
    ELSE IF Blank(config.agentName) THEN Throw("agentName is required")
    ELSE IF ~IsString(config.agentName) THEN Throw("TypeError")
    ELSE Return(UNDEFINED)

\* resolveAgentConfig: validateAgentConfig, then the same construction
resolveAgentConfig(config) ==
    IF ~validateAgentConfig(config).ok THEN validateAgentConfig(config)
    ELSE Resolved(config, config.projectId)

VARIABLES
    global,         \* globalThis: the state slot of the tracing package
    probe,          \* calls of the agent identity functions and their results
    hasMask,        \* this.mask is set
    hasPred,        \* this.shouldExportSpan is set
    agentCfg,       \* this.pendingAgentConfig (NoAgentConfig: none given)
    testProjectId,  \* this.testProjectId
    handler,        \* the LangChain CallbackHandler: run map, completion
                    \* start times, what its handlers did
    agentState,     \* "uninit" | "resolving" | "resolved" | "failed"
    resolvedAgentConfig,  \* this.resolvedAgentConfig (NoConfig: not set)
    fetches,        \* calls of apiClient.projects.get()
    agentLog,       \* what the agent resolution logged as an error
    spc,            \* per span: position of the span in its life cycle
    attrs,          \* per span: span.attributes
    endAttrs,       \* per span: span.attributes when onEnd was called
    tagged,         \* per span: agent attributes stamped by onStart
    stamp,          \* per span: the agent attributes in span.attributes
    p1,             \* per span: outcome of the processEndedSpan promise
    pending,        \* this.pendingEndedSpans
    predOut,        \* per span: what the predicate did ("none" = not called)
    maskCalls,      \* <<span, key>> pairs the mask function was called with
    maskThrew,      \* <<span, key>> pairs the mask function threw for
    mediaCalls,     \* spans MediaService.process was called with
    upl,            \* per span: state of the uploads scheduled for it
    exported,       \* per span: calls of the wrapped processor's onEnd
    logged,         \* spans whose error was logged by onEnd's catch
    escaped,        \* spans whose error left onEnd uncaught
    fkind,          \* per flush call: "none" | "forceFlush" | "shutdown"
    fpc,            \* per flush call: position in flush / forceFlush
    view,           \* per flush call: Array.from(this.pendingEndedSpans)
    mview,          \* per flush call: uploads mediaService.flush() waits for
    pendingAtCall,  \* per flush call: the pending set when it was called
    endedAtCall,    \* per flush call: spans whose onEnd was called before it
    lateEnds,       \* spans whose onEnd was called after shutdown returned
    agentAtStart,   \* per span: the agent resolution state at its onStart
    agentAtEnd,     \* per span: the agent resolution state at its onEnd
    steps,          \* per span: the steps of processEndedSpan, in order
    flog,           \* per flush call: the steps it performed, in order
    xcall           \* per flush call: what it called on the wrapped processor

vars == << global, probe, handler, hasMask, hasPred, agentCfg, testProjectId, agentState, resolvedAgentConfig,
           fetches, agentLog, spc, attrs, endAttrs, tagged, stamp, p1,
           pending, predOut, maskCalls, maskThrew, mediaCalls, upl, exported,
           logged, escaped, fkind, fpc, view, mview, pendingAtCall,
           endedAtCall, lateEnds, agentAtStart, agentAtEnd, steps,
           flog, xcall >>

cfgVars ==
    << global, probe, handler, hasMask, hasPred, agentCfg, testProjectId >>
agentVars == << agentState, resolvedAgentConfig, fetches, agentLog >>
spanVars == << spc, attrs, endAttrs, tagged, stamp, p1, pending, predOut, maskCalls, maskThrew,
               mediaCalls, upl, exported, logged, escaped >>
flushVars == << fkind, fpc, view, mview, flog, xcall >>
\* what an observer of a flush call notes down when it is called
callVars ==
    << pendingAtCall, endedAtCall, lateEnds, agentAtStart, agentAtEnd,
       steps >>

\* ------------------------------------------------------------ construction
NoAgentConfig == [agentName |-> UNDEFINED, agentDisplayName |-> UNDEFINED]
NoConfig ==
    [agentId |-> UNDEFINED, agentName |-> UNDEFINED,
     agentDisplayName |-> UNDEFINED, projectId |-> UNDEFINED]

\* initializeAgentConfig from the point where it holds a project id (or
\* null) to its end: what it leaves in this.resolvedAgentConfig and what it
\* logs as an error; it never throws
InitializeWith(config, projectId) ==
    IF ~Truthy(projectId)
    THEN [state |-> "failed", resolved |-> NoConfig, log |-> { "no-project" }]
    ELSE LET r == resolveAgentConfigWithProjectId(config, projectId)
         IN  IF r.ok
             THEN [state |-> "resolved", resolved |-> r.value, log |-> {}]
             ELSE [state |-> "failed", resolved |-> NoConfig,
                   log |-> { "init-failed" }]

\* a constructor whose initializeAgentConfig ignores the test project id
\* and always waits for the project API
ConstructAgent_alwaysFetch(a) ==
    IF ~a.given
    THEN [state |-> "uninit", resolved |-> NoConfig, log |-> {}, fetches |-> 0]
    ELSE [state |-> "resolving", resolved |-> NoConfig, log |-> {},
          fetches |-> 1]

\* constructor, lines 473-480: without params.agent nothing is started.  With
\* it initializeAgentConfig is called and runs up to its first await: with a
\* _testProjectId there is none and it runs to its end, without one it is
\* suspended in fetchProjectId, after calling apiClient.projects.get().
ConstructAgent(a) ==
    IF ~a.given
    THEN [state |-> "uninit", resolved |-> NoConfig, log |-> {}, fetches |-> 0]
    ELSE IF Truthy(a.testProjectId)
    THEN [fetches |-> 0] @@ InitializeWith(a.config, a.testProjectId)
    ELSE [state |-> "resolving", resolved |-> NoConfig, log |-> {},
          fetches |-> 1]

\* ------------------------------------------- LangChain CallbackHandler
\* run ids, and events on one handler
MaxRuns == 2
MaxEvents == 3
Runs == 1..MaxRuns

\* usageDetails of a generation that was not ended with any
NoUsageDetails ==
    [input |-> 0, output |-> 0, total |-> 0, details |-> {}]
NoEvent == [name |-> "none", run |-> 0, arg |-> "none"]

\* An LLMResult as handleLLMEnd reads it: the usage_metadata of the message
\* of the last generation, if that is an AIMessage carrying one, and
\* llmOutput.tokenUsage, if there is one.  The entries of a token details
\* object are kept in insertion order, each with its key, whether its
\* value is a number, and the number.
NoUsageMetadata ==
    [given |-> FALSE, input_tokens |-> 0, output_tokens |-> 0,
     total_tokens |-> 0, input_token_details |-> << >>,
     output_token_details |-> << >>]
NoTokenUsage ==
    [given |-> FALSE, promptTokens |-> 0, completionTokens |-> 0,
     totalTokens |-> 0]
NoLLMResult == [usage_metadata |-> NoUsageMetadata, tokenUsage |-> NoTokenUsage]

\* CallbackHandler after its constructor, lines 65-82: completionStartTimes
\* = {} (0: the run id is no key of it), runMap = new Map() ("none": the run
\* id is no key of it).  What the observations of the run map were told and
\* what became of the promises of the handlers is kept with it: how often
\* an observation registered under a run id was ended, the usageDetails and
\* completionStartTime it was last updated with, the handlers that returned
\* a rejected promise, the handlers that left a rejected promise unhandled,
\* the events so far (the clock new Date() reads) and the last event.
NewHandler ==
    [runMap |-> [r \in Runs |-> "none"],
     completionStartTimes |-> [r \in Runs |-> 0],
     ended |-> [r \in Runs |-> 0],
     usageDetails |-> [r \in Runs |-> NoUsageDetails],
     completionStartTime |-> [r \in Runs |-> 0],
     rejected |-> {}, unhandled |-> {},
     clock |-> 0, last |-> NoEvent, output |-> NoLLMResult]

Max(a, b) == IF a >= b THEN a ELSE b

\* a subtraction of the details that is not clamped
SubtractDetails_unclamped(n, details) ==
    LET RECURSIVE Sub(_, _)
        Sub(m, ds) ==
            IF ds = << >> THEN m
            ELSE Sub(IF Head(ds).num THEN m - Head(ds).val ELSE m, Tail(ds))
    IN  Sub(n, details)

\* handleLLMEnd, lines 574-576 and 586-588: every entry whose value is a
\* number is subtracted in turn, `Math.max(0, usageDetails[...] - val)`
SubtractDetails(n, details) ==
    LET RECURSIVE Sub(_, _)
        Sub(m, ds) ==
            IF ds = << >> THEN m
            ELSE Sub(IF Head(ds).num THEN Max(0, m - Head(ds).val) ELSE m,
                     Tail(ds))
    IN  Sub(n, details)

\* lines 572 and 584: usageDetails[`input_${key}`] = val
DetailEntries(prefix, details) ==
    { [prefix |-> prefix, key |-> details[i].key, num |-> details[i].num,
       val |-> details[i].val] : i \in 1..Len(details) }

\* handleLLMEnd, lines 549-590: llmUsage is the usage metadata of the
\* message or else llmOutput.tokenUsage; with neither, `"promptTokens" in
\* llmUsage` throws a TypeError
UsageDetails(output) ==
    IF output.usage_metadata.given
    THEN LET u == output.usage_metadata
         IN  Return([input |-> SubtractDetails(u.input_tokens,
                                               u.input_token_details),
                     output |-> SubtractDetails(u.output_tokens,
                                                u.output_token_details),
                     total |-> u.total_tokens,
                     details |->
                        DetailEntries("input", u.input_token_details) \cup
                        DetailEntries("output", u.output_token_details)])
    ELSE IF output.tokenUsage.given
    THEN LET u == output.tokenUsage
         IN  Return([input |-> u.promptTokens, output |-> u.completionTokens,
                     total |-> u.totalTokens, details |-> {}])
    ELSE Throw("TypeError")

\* handleOtelSpanEnd, lines 751-769: without an entry for the run id nothing
\* is done; otherwise the observation is updated and ended and the entry is
\* deleted
handleOtelSpanEnd(h, r, usage, start) ==
    IF h.runMap[r] = "none" THEN h
    ELSE [h EXCEPT !.ended[r] = @ + 1,
                   !.usageDetails[r] = usage,
                   !.completionStartTime[r] = start,
                   !.runMap[r] = "none"]

\* handleLLMNewToken, lines 88-101
handleLLMNewToken(h, r) ==
    IF h.completionStartTimes[r] = 0
    THEN [h EXCEPT !.completionStartTimes[r] = h.clock + 1]
    ELSE h

\* handleLLMEnd, lines 536-618: a failure before handleOtelSpanEnd is caught
\* and logged, the rest of the body is skipped
handleLLMEnd(h, r, output) ==
    LET usage == UsageDetails(output)
    IN  IF ~usage.ok THEN h
        ELSE [handleOtelSpanEnd(h, r, usage.value, h.completionStartTimes[r])
                 EXCEPT !.completionStartTimes[r] = 0]

\* handleLLMError and the other error handlers (lines 620-644, 216-237,
\* 478-495, 515-534): `err.toString()` throws for an err that is null or
\* undefined, which is caught and logged
handleError(h, r, arg) ==
    IF arg = "bad" THEN h
    ELSE handleOtelSpanEnd(h, r, h.usageDetails[r], h.completionStartTime[r])

\* the end handlers of chains, tools, retrievers and agents (lines 346-374,
\* 497-513, 458-476, 198-214)
handleEnd(h, r, arg) ==
    IF arg = "bad" THEN h
    ELSE handleOtelSpanEnd(h, r, h.usageDetails[r], h.completionStartTime[r])

\* startAndRegisterOtelSpan, lines 687-739: this.runMap.set(runId, ...)
startAndRegisterOtelSpan(h, r, type) == [h EXCEPT !.runMap[r] = type]

\* handleGenerationStart, lines 239-312, which has no try: with extraParams
\* that hold no invocation_params, lines 280-282 throw and the promise it
\* returns is rejected
handleGenerationStart(h, r, arg) ==
    IF arg = "badParams" THEN Throw("TypeError")
    ELSE Return(startAndRegisterOtelSpan(h, r, "generation"))

\* handleLLMStart and handleChatModelStart, lines 376-402 and 314-344:
\* handleGenerationStart is called and its promise is dropped, the try
\* block sees no rejection of it
handleStartOfGeneration(h, r, arg, name) ==
    IF arg = "bad" THEN h
    ELSE LET g == handleGenerationStart(h, r, arg)
         IN  IF g.ok THEN g.value
             ELSE [h EXCEPT !.unhandled = @ \cup { name }]

\* the start handlers of chains, tools, retrievers and agent actions (lines
\* 103-176, 404-429, 431-456, 178-196): a failure, such as a serialized
\* object without id, is caught and logged
handleStart(h, r, arg) ==
    IF arg = "bad" THEN h ELSE startAndRegisterOtelSpan(h, r, "span")

\* no call of an identity function is made
NoProbe ==
    [agentName |-> UNDEFINED, projectId |-> UNDEFINED, ids |-> << >>,
     resolutions |-> << >>, validations |-> << >>, calls |-> << >>,
     observations |-> << >>]

\* the processor after its constructor returned
Constructed(maskGiven, predGiven, agentParams) ==
    /\ hasMask \in maskGiven
    /\ hasPred \in predGiven
    /\ \E a \in agentParams :
         /\ agentCfg = IF a.given THEN a.config ELSE NoAgentConfig
         /\ testProjectId = a.testProjectId
         /\ agentState = ConstructAgent(a).state
         /\ resolvedAgentConfig = ConstructAgent(a).resolved
         /\ agentLog = ConstructAgent(a).log
         /\ fetches = ConstructAgent(a).fetches
    /\ handler = NewHandler
    /\ spc = [s \in Spans |-> "new"]
    /\ attrs = [s \in Spans |-> NoAttrs]
    /\ endAttrs = [s \in Spans |-> NoAttrs]
    /\ tagged = [s \in Spans |-> FALSE]
    /\ stamp = [s \in Spans |-> NoConfig]
    /\ p1 = [s \in Spans |-> "none"]
    /\ pending = {}
    /\ predOut = [s \in Spans |-> "none"]
    /\ maskCalls = {}
    /\ maskThrew = {}
    /\ mediaCalls = {}
    /\ upl = [s \in Spans |-> "none"]
    /\ exported = [s \in Spans |-> 0]
    /\ logged = {}
    /\ escaped = {}
    /\ fkind = [f \in Flushes |-> "none"]
    /\ fpc = [f \in Flushes |-> "idle"]
    /\ view = [f \in Flushes |-> {}]
    /\ mview = [f \in Flushes |-> {}]
    /\ pendingAtCall = [f \in Flushes |-> {}]
    /\ endedAtCall = [f \in Flushes |-> {}]
    /\ lateEnds = {}
    /\ agentAtStart = [s \in Spans |-> "none"]
    /\ agentAtEnd = [s \in Spans |-> "none"]
    /\ steps = [s \in Spans |-> << >>]
    /\ flog = [f \in Flushes |-> << >>]
    /\ xcall = [f \in Flushes |-> "none"]

\* createState, lines 312-316
createState == [isolatedTracerProvider |-> "null"]

\* globalThis before the tracing package is used: it has no state slot; it
\* accepts a new property, or, being frozen or not extensible, does not
GlobalThis(extensible) ==
    [extensible |-> extensible, slot |-> FALSE, state |-> createState,
     created |-> 0, log |-> << >>]

InitWith(maskGiven, predGiven, agentParams) ==
    /\ probe = NoProbe
    /\ global = GlobalThis(TRUE)
    /\ Constructed(maskGiven, predGiven, agentParams)

\* fetchProjectId, lines 549-569: data[0].id of the response, or null when
\* the response holds no project or the call failed (logged as a warning)
FetchedProjectId(res) == IF res.kind = "data" THEN res.id ELSE UNDEFINED

\* a resolution that is run again after it failed
ResolutionInFlight_retry == agentState \in { "resolving", "failed" }

\* a resolution that is run again to refresh a resolved configuration
ResolutionInFlight_refresh == agentState \in { "resolving", "resolved" }

\* initializeAgentConfig is called by the constructor only (line 479): it
\* resumes once, when the one call it is suspended in settles
ResolutionInFlight == agentState = "resolving"

\* a fetchProjectId that calls the API again when it got no project
FetchesAfter_retry(res) ==
    IF res.kind # "data" THEN fetches + 1 ELSE fetches

\* fetchProjectId, lines 553-567: one call, its result or null is returned
FetchesAfter(res) == fetches

\* a resolution that tags the spans already started with the configuration
\* it resolved
StampsAfterResolve_retroactive(r) ==
    [s \in Spans |->
        IF r.state = "resolved" /\ spc[s] # "new" THEN r.resolved
        ELSE stamp[s]]

\* initializeAgentConfig, lines 526-534: the configuration is cached and
\* logged, no span is touched
StampsAfterResolve(r) == stamp

\* the promise of apiClient.projects.get() settles; fetchProjectId and then
\* initializeAgentConfig resume and run to their end
AgentResolve(res) ==
    /\ ResolutionInFlight
    /\ LET r == InitializeWith(agentCfg, FetchedProjectId(res))
       IN  /\ agentState' = r.state
           /\ resolvedAgentConfig' = r.resolved
           /\ agentLog' = agentLog \cup r.log
           /\ stamp' = StampsAfterResolve(r)
    /\ fetches' = FetchesAfter(res)
    /\ UNCHANGED << cfgVars, spc, attrs, endAttrs, tagged, p1, pending,
                    predOut, maskCalls, maskThrew, mediaCalls, upl, exported,
                    logged, escaped, flushVars >>

\* onStart, line 590: `if (this.resolvedAgentConfig)`
AgentResolved == resolvedAgentConfig # NoConfig

\* an onStart that stamps what it has of a configuration still unresolved
AgentAttributes_pending ==
    IF AgentResolved THEN resolvedAgentConfig
    ELSE [NoConfig EXCEPT !.agentName = agentCfg.agentName]

\* an onStart that leaves the display name out
AgentAttributes_noDisplayName ==
    IF AgentResolved
    THEN [resolvedAgentConfig EXCEPT !.agentDisplayName = UNDEFINED]
    ELSE NoConfig

\* onStart, lines 589-598: the agent attributes put on the span
AgentAttributes ==
    IF AgentResolved THEN resolvedAgentConfig ELSE NoConfig

\* ------------------------------------------------------------------ onStart
OnStart(s, profile) ==
    /\ spc[s] = "new"
    /\ \A t \in Spans : t < s => spc[t] # "new"
    /\ spc' = [spc EXCEPT ![s] = "started"]
    /\ attrs' = [attrs EXCEPT ![s] = profile]
    /\ tagged' = [tagged EXCEPT ![s] = AgentResolved]
    /\ stamp' = [stamp EXCEPT ![s] = AgentAttributes]
    /\ UNCHANGED << cfgVars, agentVars, endAttrs, p1, pending, predOut,
                    maskCalls, maskThrew, mediaCalls, upl, exported, logged,
                    escaped, flushVars >>

\* -------------------------------------------------------------------- onEnd
\* a predicate check that excludes a span only when the predicate throws
ShouldDrop_throwOnly(po) == po = "throw"

\* a predicate check whose catch does not return
ShouldDrop_falseOnly(po) == po = "false"

\* processEndedSpan, lines 675-686: the span is excluded when the predicate
\* returns false or throws
ShouldDrop(po) == po \in { "false", "throw" }

\* applyMask: the value an attribute gets
ApplyMask(data, outcome) ==
    IF ~hasMask THEN data
    ELSE CASE outcome = "ok" -> MASKED
           [] outcome = "same" -> data
           [] outcome = "bad" -> UNSERIALIZABLE
           [] outcome = "throw" -> MASK_FAILED

PresentCandidates(a) == { k \in maskCandidates : a[k] # ABSENT }

\* applyMaskInPlace: every mask candidate the span carries is replaced
ApplyMaskInPlace(a, mo) ==
    [k \in Keys |->
        IF k \in PresentCandidates(a) THEN ApplyMask(a[k], mo[k]) ELSE a[k]]

\* an onEnd that does not register the operation
PendingAdd_forgotten(s) == pending

\* onEnd, line 632: the operation joins the pending set
PendingAdd(s) == pending \cup { s }

\* onEnd(span): processEndedSpan runs synchronously up to its first await
\* (the predicate, the masking, the call of mediaService.process), then the
\* catch-promise is put in the pending set and onEnd returns.
OnEnd(s, po, mo) ==
    /\ spc[s] = "started"
    /\ po \in (IF hasPred THEN PredOutcomes ELSE { "absent" })
    /\ predOut' = [predOut EXCEPT ![s] = po]
    /\ endAttrs' = [endAttrs EXCEPT ![s] = attrs[s]]
    /\ IF ShouldDrop(po)
       THEN /\ spc' = [spc EXCEPT ![s] = "p1"]
            /\ p1' = [p1 EXCEPT ![s] = "fulfilled"]
            /\ UNCHANGED << attrs, maskCalls, maskThrew, mediaCalls >>
       ELSE /\ attrs' = [attrs EXCEPT ![s] = ApplyMaskInPlace(attrs[s], mo)]
            /\ maskCalls' = IF hasMask
                 THEN maskCalls \cup { <<s, k>> : k \in PresentCandidates(attrs[s]) }
                 ELSE maskCalls
            /\ maskThrew' = IF hasMask
                 THEN maskThrew \cup { <<s, k>> : k \in
                         { c \in PresentCandidates(attrs[s]) : mo[c] = "throw" } }
                 ELSE maskThrew
            /\ mediaCalls' = mediaCalls \cup { s }
            /\ spc' = [spc EXCEPT ![s] = "media"]
            /\ UNCHANGED p1
    /\ pending' = PendingAdd(s)
    /\ UNCHANGED << cfgVars, agentVars, tagged, stamp, upl, exported, logged,
                    escaped, flushVars >>

\* --------------------------------------------- processEndedSpan, continued
\* MediaService.process(span): every embedded media payload found in the
\* media-bearing attributes is replaced by a reference and its upload is
\* scheduled.
MediaReplace(a) ==
    [k \in Keys |-> IF k \in maskCandidates /\ a[k] = RAWMEDIA
                    THEN MEDIAREF ELSE a[k]]

HasMedia(a) == \E k \in maskCandidates : a[k] = RAWMEDIA

\* lines 691-710: JSON.stringify of the snapshot throws on a value it cannot
\* serialize
SnapshotThrows(a) == \E k \in Keys : a[k] = UNSERIALIZABLE

\* a processEndedSpan that hands the span over before and after the snapshot
Forward_twice(s) == [exported EXCEPT ![s] = @ + 2]

\* line 712: this.processor.onEnd(span)
Forward(s) == [exported EXCEPT ![s] = @ + 1]

\* this.processor.shutdown() has been called (line 671)
ShutDownCalled == \E f \in Flushes : xcall[f] = "shutdown"

\* what the wrapped processor's onEnd does with a span: it takes it, or,
\* once it has been shut down, it may also throw
WrappedOnEndOutcomes ==
    IF ShutDownCalled THEN { "ok", "throw" } ELSE { "ok" }

\* The promise of mediaService.process(span) settles and processEndedSpan
\* resumes after its await: a rejection is rethrown by the await; otherwise
\* the debug snapshot is built and logged and the span is forwarded, which
\* the wrapped processor takes or throws on (fw).
MediaSettle(s, ok, fw) ==
    /\ spc[s] = "media"
    /\ fw \in WrappedOnEndOutcomes
    /\ (~ok \/ SnapshotThrows(attrs[s])) => fw = "ok"
    /\ spc' = [spc EXCEPT ![s] = "p1"]
    /\ IF ok
       THEN /\ attrs' = [attrs EXCEPT ![s] = MediaReplace(attrs[s])]
            /\ upl' = [upl EXCEPT ![s] =
                         IF HasMedia(attrs[s]) THEN "pending" ELSE "none"]
            /\ IF SnapshotThrows(attrs[s])
               THEN /\ p1' = [p1 EXCEPT ![s] = "rejected"]
                    /\ UNCHANGED exported
               ELSE /\ p1' = [p1 EXCEPT ![s] =
                                IF fw = "ok" THEN "fulfilled" ELSE "rejected"]
                    /\ exported' = Forward(s)
       ELSE /\ p1' = [p1 EXCEPT ![s] = "rejected"]
            /\ UNCHANGED << attrs, upl, exported >>
    /\ UNCHANGED << cfgVars, agentVars, endAttrs, tagged, stamp,
                    pending,
                    predOut, maskCalls, maskThrew, mediaCalls, logged,
                    escaped, flushVars >>

\* an upload scheduled by MediaService settles; a failed upload is logged
\* inside the service and not reported to anyone
UploadSettle(s) ==
    /\ upl[s] = "pending"
    /\ upl' = [upl EXCEPT ![s] = "done"]
    /\ UNCHANGED << cfgVars, agentVars, spc, attrs, endAttrs, tagged, stamp,
                    p1,
                    pending, predOut, maskCalls, maskThrew, mediaCalls,
                    exported, logged, escaped, flushVars >>

\* a removal registered with `.then` on the processEndedSpan promise: it
\* does not run when the operation failed
PendingDelete_onSuccess(s) ==
    IF p1[s] = "fulfilled" THEN pending \ { s } ELSE pending

\* onEnd, lines 634-636: the `.finally` reaction
PendingDelete(s) == pending \ { s }

\* a catch handler that rethrows once the processor is shut down
Unhandled_afterShutdown(s) ==
    IF p1[s] = "rejected" /\ (\E f \in Flushes : xcall[f] = "shutdown")
    THEN escaped \cup { s } ELSE escaped

\* onEnd, lines 627-629: `.catch` handles every rejection of
\* processEndedSpan, none is left unhandled
Unhandled(s) == escaped

\* onEnd, lines 627-629 and 634-636: the reactions of `.catch` and of
\* `.finally` on the settled processEndedSpan promise: a rejection is logged,
\* the catch-promise (the member of the pending set) is fulfilled either way
\* and is taken out of the pending set.
Settle(s) ==
    /\ spc[s] = "p1"
    /\ spc' = [spc EXCEPT ![s] = "done"]
    /\ logged' = IF p1[s] = "rejected" THEN logged \cup { s } ELSE logged
    /\ escaped' = Unhandled(s)
    /\ pending' = PendingDelete(s)
    /\ UNCHANGED << cfgVars, agentVars, attrs, endAttrs, tagged, stamp, p1,
                    predOut, maskCalls, maskThrew, mediaCalls, upl, exported,
                    flushVars >>

\* the catch-promise of span s has settled
Settled(s) == spc[s] = "done"

\* ------------------------------------------- flush / forceFlush / shutdown
\* a flush that does not await the agent promise
AgentPromiseSettled_noWait == TRUE

\* lines 641-643: the promise of initializeAgentConfig has settled
AgentPromiseSettled == agentState \in { "resolved", "failed" }

\* line 644: Array.from(this.pendingEndedSpans)
TakeView == pending

\* a flush that does not await the pending operations
PendingSettled_noWait(f) == TRUE

\* a flush that lets only one flush at a time wait for the pending operations
PendingSettled_exclusive(f) ==
    /\ \A s \in view[f] : spc[s] = "done"
    /\ \A g \in Flushes \ { f } : fpc[g] # "awaitPending"

\* a flush that waits until the pending set itself is empty
PendingSettled_live(f) == pending = {}

\* line 644: Promise.all over the view is fulfilled when every member is
PendingSettled(f) == \A s \in view[f] : Settled(s)

\* MediaService.flush(): awaits the uploads pending when it is called
MediaFlushView == { s \in Spans : upl[s] = "pending" }
\* a flush that does not await mediaService.flush()
MediaFlushed_noWait(f) == TRUE

MediaFlushed(f) == \A s \in mview[f] : upl[s] # "pending"

\* forceFlush() / shutdown() is called: flush() runs up to its first await,
\* which is the agent promise when there is one (lines 641-643) and
\* Promise.all over the pending set otherwise
CallFlush(f, kind) ==
    /\ fpc[f] = "idle"
    /\ \A g \in Flushes : g < f => fpc[g] # "idle"
    /\ fkind' = [fkind EXCEPT ![f] = kind]
    /\ IF agentState # "uninit"
       THEN /\ fpc' = [fpc EXCEPT ![f] = "awaitAgent"]
            /\ UNCHANGED view
       ELSE /\ fpc' = [fpc EXCEPT ![f] = "awaitPending"]
            /\ view' = [view EXCEPT ![f] = TakeView]
    /\ UNCHANGED << cfgVars, agentVars, spanVars, mview, flog, xcall >>

\* flush resumed after `await this.agentConfigPromise`
FlushAfterAgent(f) ==
    /\ fpc[f] = "awaitAgent"
    /\ AgentPromiseSettled
    /\ fpc' = [fpc EXCEPT ![f] = "awaitPending"]
    /\ view' = [view EXCEPT ![f] = TakeView]
    /\ flog' = [flog EXCEPT ![f] = Append(@, "agent")]
    /\ UNCHANGED << cfgVars, agentVars, spanVars, fkind, mview, xcall >>

\* flush resumed after `await Promise.all(...)`: mediaService.flush() is
\* called and awaited
FlushAfterPending(f) ==
    /\ fpc[f] = "awaitPending"
    /\ PendingSettled(f)
    /\ fpc' = [fpc EXCEPT ![f] = "awaitMedia"]
    /\ mview' = [mview EXCEPT ![f] = MediaFlushView]
    /\ flog' = [flog EXCEPT ![f] = Append(@, "pending")]
    /\ UNCHANGED << cfgVars, agentVars, spanVars, fkind, view, xcall >>

\* a shutdown that flushes the wrapped processor instead of shutting it down
Delegate_forceFlushOnly(f) == "forceFlush"

\* line 658: this.processor.forceFlush(), line 671: this.processor.shutdown()
Delegate(f) == fkind[f]

\* flush() returned, its frame (the view of the pending set) is gone;
\* forceFlush / shutdown resumes and delegates to the wrapped processor
\* (lines 658, 671)
FlushAfterMedia(f) ==
    /\ fpc[f] = "awaitMedia"
    /\ MediaFlushed(f)
    /\ fpc' = [fpc EXCEPT ![f] = "awaitExporter"]
    /\ flog' = [flog EXCEPT ![f] = Append(@, "media")]
    /\ xcall' = [xcall EXCEPT ![f] = Delegate(f)]
    /\ view' = [view EXCEPT ![f] = {}]
    /\ mview' = [mview EXCEPT ![f] = {}]
    /\ UNCHANGED << cfgVars, agentVars, spanVars, fkind >>

\* the promise of the wrapped processor's forceFlush / shutdown settles and
\* with it the promise forceFlush / shutdown returned
FlushReturn(f) ==
    /\ fpc[f] = "awaitExporter"
    /\ fpc' = [fpc EXCEPT ![f] = "returned"]
    /\ flog' = [flog EXCEPT ![f] = Append(@, "exporter")]
    /\ UNCHANGED << cfgVars, agentVars, spanVars, fkind, view, mview,
                    xcall >>

\* ---------------------------------------------------------- specification
\* constructor parameters: no agent; an agent whose project id is fetched
NoAgent ==
    [given |-> FALSE, config |-> NoAgentConfig, testProjectId |-> UNDEFINED]
PlainAgent ==
    [given |-> TRUE, testProjectId |-> UNDEFINED,
     config |-> [agentName |-> Str(<< "a" >>), agentDisplayName |-> UNDEFINED]]
\* responses of the project API: no project, a failed call, a project
NoProject == [kind |-> "empty", id |-> UNDEFINED]
FetchError == [kind |-> "error", id |-> UNDEFINED]
Project(v) == [kind |-> "data", id |-> Str(v)]

\* what the caller-supplied mask function does for each attribute it is
\* called with: any outcome per attribute (uniform = FALSE), or the same
\* outcome for every attribute of the span
MaskChoices(s, po, outcomes, uniform) ==
    IF hasMask /\ ~ShouldDrop(po)
    THEN IF uniform
         THEN { [k \in PresentCandidates(attrs[s]) |-> o] : o \in outcomes }
         ELSE [PresentCandidates(attrs[s]) -> outcomes]
    ELSE { [k \in PresentCandidates(attrs[s]) |-> "ok"] }

\* shutdown() has returned to its caller
ShutdownReturned ==
    \E f \in Flushes : fkind[f] = "shutdown" /\ fpc[f] = "returned"

\* the observer's note of an onEnd call made after shutdown returned
NoteStart(s, in) ==
    /\ agentAtStart' = IF "agent" \in in.notes
                       THEN [agentAtStart EXCEPT ![s] = agentState]
                       ELSE agentAtStart
    /\ UNCHANGED << pendingAtCall, endedAtCall, lateEnds, agentAtEnd, steps >>

\* processEndedSpan up to its await, lines 675-689: the predicate is called
\* if there is one; unless it excludes the span, the mask is applied and
\* mediaService.process is called
StepsToAwait(po) ==
    (IF hasPred THEN << "predicate" >> ELSE << >>) \o
    (IF ShouldDrop(po) THEN << >> ELSE << "mask", "media" >>)

\* a processEndedSpan that forwards the span before it logs the snapshot
StepsAfterAwait_forwardFirst(s, ok) ==
    IF ~ok THEN << "media settled" >>
    ELSE << "media settled", "forward", "snapshot" >>

\* processEndedSpan after its await, lines 689-712: the promise of
\* mediaService.process has settled; unless it was rejected the snapshot is
\* built and, unless that throws, the span is forwarded
StepsAfterAwait(s, ok) ==
    IF ~ok THEN << "media settled" >>
    ELSE IF SnapshotThrows(attrs[s])
    THEN << "media settled", "snapshot" >>
    ELSE << "media settled", "snapshot", "forward" >>

NoteMedia(s, in, ok) ==
    /\ steps' = IF "steps" \in in.notes
                THEN [steps EXCEPT ![s] = @ \o StepsAfterAwait(s, ok)]
                ELSE steps
    /\ UNCHANGED << pendingAtCall, endedAtCall, lateEnds, agentAtStart,
                    agentAtEnd >>

NoteEnd(s, in, po) ==
    /\ steps' = IF "steps" \in in.notes
                THEN [steps EXCEPT ![s] = @ \o StepsToAwait(po)]
                ELSE steps
    /\ lateEnds' = IF "late" \in in.notes /\ ShutdownReturned
                   THEN lateEnds \cup { s } ELSE lateEnds
    /\ agentAtEnd' = IF "agent" \in in.notes
                     THEN [agentAtEnd EXCEPT ![s] = agentState]
                     ELSE agentAtEnd
    /\ UNCHANGED << pendingAtCall, endedAtCall, agentAtStart >>

SpanStep(s, in) ==
    \/ (\E profile \in in.profiles : OnStart(s, profile)) /\ NoteStart(s, in)
    \/ \E po \in in.preds \cup { "absent" } :
          /\ \E mo \in MaskChoices(s, po, in.masks, in.uniform) :
                OnEnd(s, po, mo)
          /\ NoteEnd(s, in, po)
    \/ \E ok \in in.media :
          /\ \E fw \in { "ok", "throw" } : MediaSettle(s, ok, fw)
          /\ NoteMedia(s, in, ok)
    \/ Settle(s) /\ UNCHANGED callVars

UploadStep(s) == UploadSettle(s) /\ UNCHANGED callVars

\* the observer's notes of a flush call: the pending set at the call, the
\* spans whose onEnd was called before it
NoteCall(f, in) ==
    /\ pendingAtCall' = [pendingAtCall EXCEPT ![f] =
                            IF "pending" \in in.notes THEN pending ELSE {}]
    /\ endedAtCall' = [endedAtCall EXCEPT ![f] =
                          IF "ended" \in in.notes
                          THEN { s \in Spans : spc[s] \notin { "new", "started" } }
                          ELSE {}]
    /\ UNCHANGED << lateEnds, agentAtStart, agentAtEnd, steps >>

DropNotes(f) ==
    /\ pendingAtCall' = [pendingAtCall EXCEPT ![f] = {}]
    /\ endedAtCall' = [endedAtCall EXCEPT ![f] = {}]
    /\ UNCHANGED << lateEnds, agentAtStart, agentAtEnd, steps >>

\* the steps of a flush call on a processor without agent configuration
\* shutdown is called at most once, as the last of the flush calls
KindsOf(f, in) ==
    IF f = in.flushes THEN in.kinds ELSE in.kinds \cap { "forceFlush" }

FlushStep(f, in) ==
    \/ \E kind \in KindsOf(f, in) : CallFlush(f, kind) /\ NoteCall(f, in)
    \/ FlushAfterPending(f) /\ UNCHANGED callVars
    \/ FlushAfterMedia(f) /\ UNCHANGED callVars
    \/ FlushReturn(f) /\ DropNotes(f)

\* the steps the agent configuration adds
AgentStep(in) ==
    \/ \E res \in in.agent : AgentResolve(res) /\ UNCHANGED callVars
    \/ \E f \in Flushes : FlushAfterAgent(f) /\ UNCHANGED callVars

MediaProfile == [NoAttrs EXCEPT ![OBSERVATION_INPUT] = RAWMEDIA]
PlainProfile == [NoAttrs EXCEPT ![OBSERVATION_INPUT] = RAW]

\* every input of the end-of-span pipeline
AllInputs ==
    [ profiles |-> AttrProfiles, preds |-> PredOutcomes,
      masks |-> { "ok", "throw", "bad" }, uniform |-> FALSE,
      media |-> BOOLEAN, notes |-> {}, spans |-> MaxSpans ]

\* The end-of-span pipeline in full detail: spans are started and ended and
\* their operations settle; no flush is called.
PipelineNext ==
    \/ \E s \in 1..AllInputs.spans : SpanStep(s, AllInputs)
    \/ \E s \in Spans : UploadStep(s)

PipelineInit ==
    InitWith(BOOLEAN, BOOLEAN, { NoAgent })

Spec == PipelineInit /\ [][PipelineNext]_vars

\* The end-of-span pipeline step by step: processors with and without mask
\* and predicate; the mask redacts every value or returns values that
\* cannot be serialized; the steps done for each span are noted.
StepInputs ==
    [ profiles |-> AttrProfiles, preds |-> PredOutcomes,
      masks |-> { "ok", "bad" }, uniform |-> TRUE,
      media |-> BOOLEAN, notes |-> { "steps" }, spans |-> MaxSpans ]

StepNext ==
    \/ \E s \in 1..StepInputs.spans : SpanStep(s, StepInputs)
    \/ \E s \in Spans : UploadStep(s)

StepInit ==
    InitWith(BOOLEAN, BOOLEAN, { NoAgent })

SpecSteps == StepInit /\ [][StepNext]_vars

\* Every writer of span attributes together: a processor with a mask
\* function and an agent configuration whose project id is being fetched;
\* spans with and without embedded media are started and ended before and
\* after the resolution, their uploads settle.
FrameInputs ==
    [ profiles |-> { MediaProfile, PlainProfile }, preds |-> {},
      masks |-> { "ok", "same" }, uniform |-> TRUE, media |-> { TRUE },
      agent |-> { NoProject, Project(<< "b" >>) },
      notes |-> {}, spans |-> MaxSpans ]

FrameNext ==
    \/ \E res \in FrameInputs.agent : AgentResolve(res) /\ UNCHANGED callVars
    \/ \E s \in 1..FrameInputs.spans : SpanStep(s, FrameInputs)
    \/ \E s \in Spans : UploadStep(s)

FrameInit == InitWith({ TRUE }, { FALSE }, { PlainAgent })

SpecFrame == FrameInit /\ [][FrameNext]_vars

\* The end-of-span pipeline of a processor with a mask function and no
\* predicate, where mediaService.process never rejects.
MaskInputs ==
    [ profiles |-> AttrProfiles, preds |-> {},
      masks |-> MaskOutcomes, uniform |-> FALSE,
      media |-> { TRUE }, notes |-> {}, spans |-> MaxSpans ]

MaskNext ==
    \/ \E s \in 1..MaskInputs.spans : SpanStep(s, MaskInputs)
    \/ \E s \in Spans : UploadStep(s)

MaskInit ==
    InitWith({ TRUE }, { FALSE }, { NoAgent })

SpecMask == MaskInit /\ [][MaskNext]_vars

\* Agent tagging: processors built with and without an agent configuration,
\* with and without _testProjectId, with names and project ids that are
\* padded, blank or empty; the project API answers in every way; spans are
\* started and ended before and after the resolution.
AgentNames == { Str(<< "a" >>), Str(<< " ", "a" >>), Str(<< " " >>), Str(<< >>) }
AgentDisplayNames == { UNDEFINED, Str(<< "b", " " >>) }
TestProjectIds == { UNDEFINED, Str(<< "b" >>), Str(<< " " >>) }

AgentParams ==
    { NoAgent } \cup
    { [given |-> TRUE, testProjectId |-> t,
       config |-> [agentName |-> n, agentDisplayName |-> d]] :
        n \in AgentNames, d \in AgentDisplayNames, t \in TestProjectIds }

AgentInputs ==
    [ profiles |-> { PlainProfile }, preds |-> {},
      masks |-> { "ok" }, uniform |-> TRUE, media |-> { TRUE },
      agent |-> { NoProject, FetchError, Project(<< "b" >>),
                  Project(<< "a" >>),
                  Project(<< "b", " " >>), Project(<< " " >>),
                  Project(<< >>) },
      notes |-> { "agent" }, spans |-> MaxSpans ]

AgentNext ==
    \/ \E res \in AgentInputs.agent : AgentResolve(res) /\ UNCHANGED callVars
    \/ \E s \in 1..AgentInputs.spans : SpanStep(s, AgentInputs)

AgentInit == InitWith({ FALSE }, { FALSE }, AgentParams)

SpecAgent == AgentInit /\ [][AgentNext]_vars

\* Agent identity: the exported functions generateAgentId and
\* resolveAgentConfig and the processor's resolveAgentConfigWithProjectId
\* are called with one agent name and one project id (strings of up to
\* MaxLen characters, blank and padded ones among them, and values that are
\* no strings) and with several display names.
IdentityInputs == { Str(v) : v \in Strings } \cup { UNDEFINED, OBJECT }
IdentityDisplayNames == { UNDEFINED, Str(<< "a" >>), Str(<< "b", " " >>) }
MaxCalls == 2

CallGenerateAgentId ==
    /\ Len(probe.ids) < 1
    /\ probe' = [probe EXCEPT !.ids =
                    Append(@, generateAgentId(probe.agentName,
                                              probe.projectId))]
    /\ UNCHANGED << global, handler, hasMask, hasPred, agentCfg,
                    testProjectId,
                    agentVars,
                    spanVars, flushVars, callVars >>

CallResolveAgentConfig(d) ==
    /\ Len(probe.resolutions) < MaxCalls
    /\ probe' = [probe EXCEPT !.resolutions =
                    Append(@, [agentDisplayName |-> d,
                               result |-> resolveAgentConfig(
                                   [agentName |-> probe.agentName,
                                    agentDisplayName |-> d,
                                    projectId |-> probe.projectId])])]
    /\ UNCHANGED << global, handler, hasMask, hasPred, agentCfg,
                    testProjectId,
                    agentVars,
                    spanVars, flushVars, callVars >>

CallResolveAgentConfigWithProjectId(d) ==
    /\ Len(probe.resolutions) < MaxCalls
    /\ probe' = [probe EXCEPT !.resolutions =
                    Append(@, [agentDisplayName |-> d,
                               result |-> resolveAgentConfigWithProjectId(
                                   [agentName |-> probe.agentName,
                                    agentDisplayName |-> d],
                                   probe.projectId)])]
    /\ UNCHANGED << global, handler, hasMask, hasPred, agentCfg,
                    testProjectId,
                    agentVars,
                    spanVars, flushVars, callVars >>

CallValidateAgentConfig ==
    /\ Len(probe.validations) < 1
    /\ probe' = [probe EXCEPT !.validations =
                    Append(@, validateAgentConfig(
                                  [agentName |-> probe.agentName,
                                   agentDisplayName |-> UNDEFINED,
                                   projectId |-> probe.projectId]))]
    /\ UNCHANGED << global, handler, hasMask, hasPred, agentCfg,
                    testProjectId,
                    agentVars,
                    spanVars, flushVars, callVars >>

IdentityNext ==
    \/ CallGenerateAgentId
    \/ CallValidateAgentConfig
    \/ \E d \in IdentityDisplayNames : CallResolveAgentConfig(d)
    \/ \E d \in IdentityDisplayNames : CallResolveAgentConfigWithProjectId(d)

IdentityInit ==
    /\ probe \in { [NoProbe EXCEPT !.agentName = n, !.projectId = p] :
                      n \in IdentityInputs, p \in IdentityInputs }
    /\ global = GlobalThis(TRUE)
    /\ Constructed({ FALSE }, { FALSE }, { NoAgent })

SpecIdentity == IdentityInit /\ [][IdentityNext]_vars

\* Long agent names: generateAgentId is called with names around the length
\* limit, from one character shorter than it to MaxLen - 1 characters
\* longer, with and without a leading blank.
NearLimit == [i \in 1..(MAX_AGENT_NAME_LENGTH - 1) |-> "a"]
LongNames ==
    { Str(p \o NearLimit \o v) : p \in { << >>, << " " >> }, v \in Strings }

LongNameInit ==
    /\ probe \in { [NoProbe EXCEPT !.agentName = n, !.projectId = p] :
                      n \in LongNames, p \in IdentityInputs }
    /\ global = GlobalThis(TRUE)
    /\ Constructed({ FALSE }, { FALSE }, { NoAgent })

LongNameNext == CallGenerateAgentId

SpecLongNames == LongNameInit /\ [][LongNameNext]_vars

\* Ids of different agents: generateAgentId is called twice, the second time
\* with the agent name or the project id of the first call.
GenerateAgentIdFor(n, p) ==
    /\ Len(probe.calls) < 2
    /\ probe' = [probe EXCEPT !.calls =
                    Append(@, [agentName |-> n, projectId |-> p,
                               result |-> generateAgentId(n, p)])]
    /\ UNCHANGED << global, handler, hasMask, hasPred, agentCfg,
                    testProjectId,
                    agentVars,
                    spanVars, flushVars, callVars >>

DistinctNext ==
    \/ /\ probe.calls = << >>
       /\ \E n \in IdentityInputs, p \in IdentityInputs :
             GenerateAgentIdFor(n, p)
    \/ /\ probe.calls # << >>
       /\ \E n \in IdentityInputs :
             GenerateAgentIdFor(n, probe.calls[1].projectId)
    \/ /\ probe.calls # << >>
       /\ \E p \in IdentityInputs :
             GenerateAgentIdFor(probe.calls[1].agentName, p)

DistinctInit == InitWith({ FALSE }, { FALSE }, { NoAgent })

SpecDistinct == DistinctInit /\ [][DistinctNext]_vars

\* Ids of any two agents: generateAgentId is called twice with agent names
\* and project ids without inner spaces, one padded name among them.
PairInputs ==
    { Str(v) : v \in { w \in Strings : \A i \in 1..Len(w) : w[i] # " " } }
        \cup { Str(<< " ", "a" >>) }

PairNext ==
    \/ /\ probe.calls = << >>
       /\ \E n \in PairInputs, p \in PairInputs : GenerateAgentIdFor(n, p)
    \/ /\ probe.calls # << >>
       /\ \E n \in PairInputs, p \in PairInputs : GenerateAgentIdFor(n, p)

SpecPairs == DistinctInit /\ [][PairNext]_vars

\* ------------------------------------------------ observation attributes
OBSERVATION_TYPE == "ants-platform.observation.type"
OBSERVATION_LEVEL == "ants-platform.observation.level"
OBSERVATION_PROMPT_NAME == "ants-platform.observation.prompt.name"
OBSERVATION_PROMPT_VERSION == "ants-platform.observation.prompt.version"
\* `${prefix}.${key}` for the metadata field named "prompt.name"
OBSERVATION_METADATA_PROMPT_NAME ==
    "ants-platform.observation.metadata.prompt.name"

ObservationKeys ==
    { OBSERVATION_TYPE, OBSERVATION_LEVEL, OBSERVATION_INPUT,
      OBSERVATION_OUTPUT, OBSERVATION_PROMPT_NAME,
      OBSERVATION_PROMPT_VERSION, OBSERVATION_METADATA,
      OBSERVATION_METADATA_FIELD, OBSERVATION_METADATA_PROMPT_NAME }

\* null or undefined / an object JSON.stringify serializes / its JSON text
NULLISH == "<nullish>"
PLAIN_OBJECT == "<object>"
JSON_TEXT == "<json>"
FAILED_TO_SERIALIZE == "<failed to serialize>"

\* _serialize, lines 125-133
Serialize(obj) ==
    CASE obj = NULLISH -> NULLISH
      [] obj = UNSERIALIZABLE -> FAILED_TO_SERIALIZE
      [] obj = PLAIN_OBJECT -> JSON_TEXT
      [] OTHER -> obj

\* the string of length 0
EMPTY_STRING == ""

\* the metadata given: none, a string, or an object with one field, whose
\* value is a string, null, or an object that can or cannot be serialized
NoMetadata == [kind |-> "none", field |-> "", value |-> NULLISH]
Metadatas ==
    { NoMetadata, [kind |-> "scalar", field |-> "", value |-> RAW] } \cup
    { [kind |-> "object", field |-> f, value |-> v] :
        f \in { "k", "prompt.name" },
        v \in { RAW, EMPTY_STRING, NULLISH, PLAIN_OBJECT, UNSERIALIZABLE } }

\* _flattenAndSerializeMetadata, lines 164 and 170: `if (serialized)`
SerializedKept(serialized) == serialized \notin { NULLISH, EMPTY_STRING }

\* _flattenAndSerializeMetadata(metadata, "observation"): the value it
\* gives the key k, NULLISH when it does not set it
FlattenedMetadata(metadata, k) ==
    LET serialized == Serialize(metadata.value)
        kept == IF SerializedKept(serialized) THEN serialized ELSE NULLISH
    IN  CASE metadata.kind = "scalar" /\ k = OBSERVATION_METADATA -> kept
          [] metadata.kind = "object" /\ metadata.field = "k"
                /\ k = OBSERVATION_METADATA_FIELD -> kept
          [] metadata.kind = "object" /\ metadata.field = "prompt.name"
                /\ k = OBSERVATION_METADATA_PROMPT_NAME -> kept
          [] OTHER -> NULLISH

\* the prompt given: none, or name, version and isFallback
NoPrompt ==
    [given |-> FALSE, name |-> NULLISH, version |-> NULLISH,
     isFallback |-> NULLISH]
Prompts ==
    { NoPrompt } \cup
    [given : { TRUE }, name : { "prompt-a", NULLISH },
     version : { "1", NULLISH }, isFallback : { "true", "false", NULLISH }]

\* a builder that links every prompt given
PromptLinked_fallbackToo(prompt) == prompt.given

\* line 103: `prompt && !prompt.isFallback`
PromptLinked(prompt) == prompt.given /\ prompt.isFallback # "true"

\* createObservationAttributes, lines 87-111: the object built, before the
\* null values are filtered out (of the scalar fields, level stands for
\* statusMessage, version and model, input for output and the details)
ObservationEntries(type, a) ==
    [k \in ObservationKeys |->
        CASE k = OBSERVATION_TYPE -> type
          [] k = OBSERVATION_LEVEL -> a.level
          [] k = OBSERVATION_INPUT -> Serialize(a.input)
          [] k = OBSERVATION_OUTPUT -> Serialize(a.output)
          [] k = OBSERVATION_PROMPT_NAME ->
                IF PromptLinked(a.prompt) THEN a.prompt.name ELSE NULLISH
          [] k = OBSERVATION_PROMPT_VERSION ->
                IF PromptLinked(a.prompt) THEN a.prompt.version ELSE NULLISH
          [] OTHER -> FlattenedMetadata(a.metadata, k)]

\* lines 113-115: the entries whose value is not null; ABSENT: no such key
createObservationAttributes(type, a) ==
    [k \in ObservationKeys |->
        IF ObservationEntries(type, a)[k] = NULLISH THEN ABSENT
        ELSE ObservationEntries(type, a)[k]]

ObservationInputs ==
    [level : { NULLISH, "DEFAULT" },
     input : { NULLISH, RAW, PLAIN_OBJECT, UNSERIALIZABLE },
     output : { NULLISH, RAW },
     prompt : Prompts, metadata : Metadatas]

CallCreateObservationAttributes(type, a) ==
    /\ probe.observations = << >>
    /\ probe' = [probe EXCEPT !.observations =
                    Append(@, [type |-> type, attributes |-> a,
                               result |->
                                  createObservationAttributes(type, a)])]
    /\ UNCHANGED << global, handler, hasMask, hasPred, agentCfg,
                    testProjectId,
                    agentVars,
                    spanVars, flushVars, callVars >>

ObservationNext ==
    \E type \in { "span", "generation" }, a \in ObservationInputs :
        CallCreateObservationAttributes(type, a)

ObservationInit == InitWith({ FALSE }, { FALSE }, { NoAgent })

SpecObservation == ObservationInit /\ [][ObservationNext]_vars

\* ---------------------------------------------------- tracer provider
\* calls of set/getAntsPlatformTracerProvider in one process
MaxProviderCalls == 3
TracerProviders == { "provider-1", "provider-2" }
\* trace.getTracerProvider(): the ambient OpenTelemetry provider
GLOBAL_PROVIDER == "global-provider"

\* getGlobalState, line 335: `!g[ANTS_PLATFORM_GLOBAL_SYMBOL]`
SlotMissing(g) == ~g.slot

\* getGlobalState, lines 322-354: globalThis after the call.  A missing slot
\* is defined with the initial state; when defineProperty throws, globalThis
\* stays as it is.
GlobalAfterAccess(g) ==
    IF SlotMissing(g) /\ g.extensible
    THEN [g EXCEPT !.slot = TRUE, !.state = createState,
                   !.created = @ + 1]
    ELSE g

\* getGlobalState: TRUE when the state it returns is the one in the slot,
\* FALSE when it is the fresh initialState (catch branch, line 352)
ReturnsSlotState(g) == GlobalAfterAccess(g).slot

\* setAntsPlatformTracerProvider, lines 400-402
setAntsPlatformTracerProvider(provider) ==
    /\ Len(global.log) < MaxProviderCalls
    /\ LET g == GlobalAfterAccess(global)
           h == IF ReturnsSlotState(global)
                THEN [g EXCEPT !.state.isolatedTracerProvider = provider]
                ELSE g
       IN  global' = [h EXCEPT !.log =
                         Append(@, [op |-> "set", provider |-> provider])]
    /\ UNCHANGED << probe, handler, hasMask, hasPred, agentCfg,
                    testProjectId,
                    agentVars,
                    spanVars, flushVars, callVars >>

\* getAntsPlatformTracerProvider, lines 421-427
getAntsPlatformTracerProvider ==
    /\ Len(global.log) < MaxProviderCalls
    /\ LET g == GlobalAfterAccess(global)
           isolatedTracerProvider ==
               IF ReturnsSlotState(global)
               THEN g.state.isolatedTracerProvider
               ELSE createState.isolatedTracerProvider
           returned == IF isolatedTracerProvider # "null"
                       THEN isolatedTracerProvider ELSE GLOBAL_PROVIDER
       IN  global' = [g EXCEPT !.log =
                         Append(@, [op |-> "get", provider |-> returned])]
    /\ UNCHANGED << probe, handler, hasMask, hasPred, agentCfg,
                    testProjectId,
                    agentVars,
                    spanVars, flushVars, callVars >>

ProviderNext ==
    \/ \E p \in TracerProviders \cup { "null" } :
          setAntsPlatformTracerProvider(p)
    \/ getAntsPlatformTracerProvider

ProviderInit ==
    /\ probe = NoProbe
    /\ \E extensible \in BOOLEAN : global = GlobalThis(extensible)
    /\ Constructed({ FALSE }, { FALSE }, { NoAgent })

SpecProvider == ProviderInit /\ [][ProviderNext]_vars

\* Flush coordination while the agent resolution started by the constructor
\* is in flight: the pending set at the call and the view flush takes after
\* the agent promise differ. The resolution ends without a project id, so
\* no span is tagged.
AgentFlushInputs ==
    [ profiles |-> { PlainProfile }, preds |-> {},
      masks |-> { "ok" }, uniform |-> TRUE, media |-> BOOLEAN,
      kinds |-> { "forceFlush", "shutdown" }, agent |-> { NoProject },
      notes |-> { "pending" }, spans |-> MaxSpans, flushes |-> MaxSoloFlush ]

AgentFlushNext ==
    \/ AgentStep(AgentFlushInputs)
    \/ \E s \in 1..AgentFlushInputs.spans : SpanStep(s, AgentFlushInputs)
    \/ \E f \in 1..AgentFlushInputs.flushes : FlushStep(f, AgentFlushInputs)

AgentFlushInit ==
    InitWith({ FALSE }, { FALSE }, { PlainAgent })

SpecAgentFlush == AgentFlushInit /\ [][AgentFlushNext]_vars

\* Flush coordination without agent configuration, with a predicate and a
\* mask function that treats every attribute of a span alike; the observer
\* notes the spans ended before each flush call.
EndedInputs ==
    [ profiles |-> { MediaProfile }, preds |-> { "true", "false" },
      masks |-> { "same", "bad" }, uniform |-> TRUE, media |-> { TRUE },
      kinds |-> { "forceFlush", "shutdown" }, notes |-> { "ended" },
      spans |-> MaxSpans, flushes |-> MaxSoloFlush ]

EndedNext ==
    \/ \E s \in 1..EndedInputs.spans : SpanStep(s, EndedInputs)
    \/ \E s \in Spans : UploadStep(s)
    \/ \E f \in 1..EndedInputs.flushes : FlushStep(f, EndedInputs)

EndedInit ==
    InitWith({ TRUE }, { TRUE }, { NoAgent })

SpecFlushEnded == EndedInit /\ [][EndedNext]_vars

\* Flush coordination with media uploads: no predicate, no mask function,
\* every span carries an embedded media payload.
FlushInputs ==
    [ profiles |-> { MediaProfile }, preds |-> {},
      masks |-> { "ok" }, uniform |-> TRUE, media |-> { TRUE },
      kinds |-> { "forceFlush", "shutdown" }, notes |-> {},
      spans |-> MaxSpans, flushes |-> MaxSoloFlush ]

FlushNext ==
    \/ \E s \in 1..FlushInputs.spans : SpanStep(s, FlushInputs)
    \/ \E s \in Spans : UploadStep(s)
    \/ \E f \in 1..FlushInputs.flushes : FlushStep(f, FlushInputs)

FlushInit ==
    InitWith({ FALSE }, { FALSE }, { NoAgent })

SpecFlush == FlushInit /\ [][FlushNext]_vars

\* Spans started and ended around a shutdown: mediaService.process may
\* reject and the wrapped processor, once shut down, may throw; the observer
\* notes the spans whose onEnd is called after shutdown returned.
ShutdownInputs ==
    [ profiles |-> { MediaProfile }, preds |-> {},
      masks |-> { "ok" }, uniform |-> TRUE, media |-> BOOLEAN,
      kinds |-> { "forceFlush", "shutdown" }, notes |-> { "late" },
      spans |-> MaxSpans, flushes |-> MaxSoloFlush ]

ShutdownNext ==
    \/ \E s \in 1..ShutdownInputs.spans : SpanStep(s, ShutdownInputs)
    \/ \E s \in Spans : UploadStep(s)
    \/ \E f \in 1..ShutdownInputs.flushes : FlushStep(f, ShutdownInputs)

SpecShutdown == FlushInit /\ [][ShutdownNext]_vars

\* Overlapping flush calls, with media uploads.
OverlapInputs ==
    [ profiles |-> { MediaProfile }, preds |-> {},
      masks |-> { "ok" }, uniform |-> TRUE, media |-> { TRUE },
      kinds |-> { "forceFlush", "shutdown" }, notes |-> {},
      spans |-> MaxOverlapSpans, flushes |-> MaxFlush ]

OverlapNext ==
    \/ \E s \in 1..OverlapInputs.spans : SpanStep(s, OverlapInputs)
    \/ \E s \in Spans : UploadStep(s)
    \/ \E f \in 1..OverlapInputs.flushes : FlushStep(f, OverlapInputs)

\* what makes progress once it can: the promises of mediaService.process,
\* of the uploads and of the wrapped processor settle, promise reactions run
SpanProgress(s) ==
    /\ \/ \E ok \in FlushInputs.media : \E fw \in { "ok", "throw" } :
            MediaSettle(s, ok, fw)
       \/ Settle(s)
    /\ UNCHANGED callVars

FlushProgress(f) ==
    \/ FlushAfterPending(f) /\ UNCHANGED callVars
    \/ FlushAfterMedia(f) /\ UNCHANGED callVars
    \/ FlushReturn(f) /\ DropNotes(f)

\* Overlapping flush calls where every operation that can make progress
\* eventually does.
SpecOverlapFair ==
    /\ FlushInit /\ [][OverlapNext]_vars
    /\ \A s \in Spans : WF_vars(SpanProgress(s)) /\ WF_vars(UploadStep(s))
    /\ \A f \in Flushes : WF_vars(FlushProgress(f))

\* Flush coordination where only the flush calls, the uploads and the
\* wrapped processor are known to make progress: a span may be ended at any
\* time and its operation may stay pending for ever.
SpecFlushLater ==
    /\ FlushInit /\ [][FlushNext]_vars
    /\ \A s \in Spans : WF_vars(UploadStep(s))
    /\ \A f \in Flushes : WF_vars(FlushProgress(f))

\* Flush coordination with agent configuration where the flush calls, the
\* operations of the spans and the wrapped processor make progress once they
\* can; the call of the project API may stay pending for ever.
AgentFairInputs ==
    [ profiles |-> { PlainProfile }, preds |-> {},
      masks |-> { "ok" }, uniform |-> TRUE, media |-> { TRUE },
      kinds |-> { "forceFlush", "shutdown" },
      agent |-> { NoProject, FetchError }, notes |-> {},
      spans |-> MaxOverlapSpans, flushes |-> MaxFlush ]

AgentFairNext ==
    \/ AgentStep(AgentFairInputs)
    \/ \E s \in 1..AgentFairInputs.spans : SpanStep(s, AgentFairInputs)
    \/ \E f \in 1..AgentFairInputs.flushes : FlushStep(f, AgentFairInputs)

SpecAgentFlushFair ==
    /\ AgentFlushInit /\ [][AgentFairNext]_vars
    /\ \A s \in Spans : WF_vars(SpanProgress(s))
    /\ \A f \in Flushes :
          /\ WF_vars(FlushAfterAgent(f) /\ UNCHANGED callVars)
          /\ WF_vars(FlushProgress(f))

\* ---------------------------------------------- CallbackHandler events
\* a handler was called and the promise it returned has settled
Event(h, name, r, arg) ==
    [h EXCEPT !.clock = @ + 1,
              !.last = [name |-> name, run |-> r, arg |-> arg]]

ProcessorUnchanged ==
    UNCHANGED << global, probe, hasMask, hasPred, agentCfg, testProjectId,
                 agentVars, spanVars, flushVars, callVars >>

UsageKind(output) ==
    IF output.usage_metadata.given THEN "usage_metadata"
    ELSE IF output.tokenUsage.given THEN "tokenUsage"
    ELSE "none"

HandleLLMNewToken(r) ==
    /\ handler.clock < MaxEvents
    /\ handler' = Event(handleLLMNewToken(handler, r),
                        "handleLLMNewToken", r, "ok")
    /\ ProcessorUnchanged

HandleGenerationStart(r, arg) ==
    /\ handler.clock < MaxEvents
    /\ LET g == handleGenerationStart(handler, r, arg)
       IN  handler' =
             Event(IF g.ok THEN g.value
                   ELSE [handler EXCEPT
                            !.rejected = @ \cup { "handleGenerationStart" }],
                   "handleGenerationStart", r, arg)
    /\ ProcessorUnchanged

HandleLLMStart(r, arg) ==
    /\ handler.clock < MaxEvents
    /\ handler' = Event(handleStartOfGeneration(handler, r, arg,
                                                "handleLLMStart"),
                        "handleLLMStart", r, arg)
    /\ ProcessorUnchanged

HandleChatModelStart(r, arg) ==
    /\ handler.clock < MaxEvents
    /\ handler' = Event(handleStartOfGeneration(handler, r, arg,
                                                "handleChatModelStart"),
                        "handleChatModelStart", r, arg)
    /\ ProcessorUnchanged

HandleLLMEnd(r, output) ==
    /\ handler.clock < MaxEvents
    /\ handler' = [Event(handleLLMEnd(handler, r, output),
                         "handleLLMEnd", r, UsageKind(output))
                      EXCEPT !.output = output]
    /\ ProcessorUnchanged

HandleLLMError(r, arg) ==
    /\ handler.clock < MaxEvents
    /\ handler' = Event(handleError(handler, r, arg), "handleLLMError", r, arg)
    /\ ProcessorUnchanged

StartHandlers ==
    { "handleChainStart", "handleToolStart", "handleRetrieverStart",
      "handleAgentAction" }
EndHandlers ==
    { "handleChainEnd", "handleToolEnd", "handleRetrieverEnd",
      "handleAgentEnd" }
ErrorHandlers ==
    { "handleChainError", "handleToolError", "handleRetrieverError" }

HandleStart(name, r, arg) ==
    /\ handler.clock < MaxEvents
    /\ handler' = Event(handleStart(handler, r, arg), name, r, arg)
    /\ ProcessorUnchanged

\* of the end handlers only handleChainEnd reads into its argument
HandleEnd(name, r, arg) ==
    /\ handler.clock < MaxEvents
    /\ arg = "bad" => name = "handleChainEnd"
    /\ handler' = Event(handleEnd(handler, r, arg), name, r, arg)
    /\ ProcessorUnchanged

HandleError(name, r, arg) ==
    /\ handler.clock < MaxEvents
    /\ handler' = Event(handleError(handler, r, arg), name, r, arg)
    /\ ProcessorUnchanged

\* LLM results with usage metadata on the message, with token usage in
\* llmOutput, and with neither
WithUsageMetadata ==
    [NoLLMResult EXCEPT !.usage_metadata =
        [given |-> TRUE, input_tokens |-> 3, output_tokens |-> 2,
         total_tokens |-> 5,
         input_token_details |->
            << [key |-> "cache_read", num |-> TRUE, val |-> 1] >>,
         output_token_details |-> << >>]]
WithTokenUsage ==
    [NoLLMResult EXCEPT !.tokenUsage =
        [given |-> TRUE, promptTokens |-> 3, completionTokens |-> 2,
         totalTokens |-> 5]]
LLMResults == { WithUsageMetadata, WithTokenUsage, NoLLMResult }

\* The CallbackHandler: every handler is called, for any run id, with
\* arguments it can work with and with arguments its body fails on.
HandlerNext ==
    \/ \E r \in Runs : HandleLLMNewToken(r)
    \/ \E r \in Runs, arg \in { "ok", "badParams" } :
          HandleGenerationStart(r, arg)
    \/ \E r \in Runs, arg \in { "ok", "badParams" } : HandleLLMStart(r, arg)
    \/ \E r \in Runs, arg \in { "ok", "bad", "badParams" } :
          HandleChatModelStart(r, arg)
    \/ \E r \in Runs, output \in LLMResults : HandleLLMEnd(r, output)
    \/ \E r \in Runs, arg \in { "ok", "bad" } : HandleLLMError(r, arg)
    \/ \E name \in StartHandlers, r \in Runs, arg \in { "ok", "bad" } :
          HandleStart(name, r, arg)
    \/ \E name \in EndHandlers, r \in Runs, arg \in { "ok", "bad" } :
          HandleEnd(name, r, arg)
    \/ \E name \in ErrorHandlers, r \in Runs, arg \in { "ok", "bad" } :
          HandleError(name, r, arg)

HandlerInit == InitWith({ FALSE }, { FALSE }, { NoAgent })

\* Token usage: a generation is started and ended, once, with usage metadata
\* whose totals are up to MaxTokens and whose token details hold up to two
\* entries, with values up to MaxTokens or values that are no numbers.
MaxTokens == 3
DetailKeys == { "cache_read", "audio" }
DetailEntry ==
    [key : DetailKeys, num : { TRUE }, val : 0..MaxTokens] \cup
    [key : DetailKeys, num : { FALSE }, val : { 0 }]
TokenDetails ==
    { << >> } \cup { << e >> : e \in DetailEntry } \cup
    { << p[1], p[2] >> :
        p \in { q \in DetailEntry \X DetailEntry : q[1].key # q[2].key } }
UsageResults ==
    { [NoLLMResult EXCEPT !.usage_metadata =
          [given |-> TRUE, input_tokens |-> n, output_tokens |-> 2,
           total_tokens |-> n + 2, input_token_details |-> d,
           output_token_details |-> << >>]] :
        n \in 0..MaxTokens, d \in TokenDetails } \cup
    { [NoLLMResult EXCEPT !.usage_metadata =
          [given |-> TRUE, input_tokens |-> 2, output_tokens |-> n,
           total_tokens |-> n + 2, input_token_details |-> << >>,
           output_token_details |-> d]] :
        n \in 0..MaxTokens, d \in TokenDetails }

UsageNext ==
    \/ HandleLLMStart(1, "ok")
    \/ /\ handler.runMap[1] # "none" /\ handler.ended[1] = 0
       /\ \E output \in UsageResults : HandleLLMEnd(1, output)

SpecUsage == HandlerInit /\ [][UsageNext]_vars

SpecHandler == HandlerInit /\ [][HandlerNext]_vars

\* ------------------------------------------------------------------ claims
Returns(f) == fpc[f] = "awaitExporter" /\ fpc'[f] = "returned"

Accepted(s) == predOut[s] \in { "true", "absent" }

MaskCallsOf(s) == { k \in Keys : <<s, k>> \in maskCalls }
MaskThrewOf(s) == { k \in Keys : <<s, k>> \in maskThrew }

\* C1: whenever a forceFlush or shutdown call returns, every operation that
\* was in the pending set at the moment of that call has settled.
C1_FlushWaitsForPendingAtCall ==
    [][\A f \in Flushes :
          Returns(f) => \A s \in pendingAtCall[f] : Settled(s)]_vars

\* a flush call about to return whose agent wait came first and that found
\* operations pending when it was called, one of which failed
C1_Witness ==
    \E f \in Flushes :
        /\ fpc[f] = "awaitExporter"
        /\ flog[f] = << "agent", "pending", "media" >>
        /\ \E s \in pendingAtCall[f] : Settled(s) /\ p1[s] = "rejected"

\* C2: when forceFlush returns, every span whose onEnd was called before the
\* forceFlush call and which the predicate accepted has been passed to the
\* wrapped processor's onEnd.
C2_NoSpanDropped ==
    [][\A f \in Flushes :
          (Returns(f) /\ fkind[f] = "forceFlush") =>
              \A s \in endedAtCall[f] : Accepted(s) => exported[s] >= 1]_vars

\* C3: for a span the predicate returned false for, the mask function and
\* MediaService.process are never called and the span is never forwarded.
C3_RejectedSpanUntouched ==
    \A s \in Spans :
        predOut[s] = "false" =>
            /\ MaskCallsOf(s) = {}
            /\ s \notin mediaCalls
            /\ exported[s] = 0
            /\ attrs[s] = endAttrs[s]

\* a rejected span with maskable attributes, on a processor with a mask
\* function, whose operation has settled
C3_Witness ==
    \E s \in Spans :
        /\ predOut[s] = "false" /\ spc[s] = "done"
        /\ hasMask /\ PresentCandidates(attrs[s]) # {}

C5_PredicateFailureDrops ==
    \A s \in Spans :
        predOut[s] = "throw" =>
            /\ MaskCallsOf(s) = {}
            /\ s \notin mediaCalls
            /\ exported[s] = 0
            /\ attrs[s] = endAttrs[s]
            /\ s \notin escaped

\* a span the predicate threw for, with maskable attributes, on a processor
\* with a mask function, whose operation has settled
C5_Witness ==
    \E s \in Spans :
        /\ predOut[s] = "throw" /\ spc[s] = "done"
        /\ hasMask /\ PresentCandidates(attrs[s]) # {}

\* C6: the pending set holds exactly the operations that were started by
\* onEnd and have not settled, whatever their outcome, and no error of an
\* operation is left unhandled; so it is empty once all of them have settled.
C6_PendingSetTracksOperations ==
    /\ pending = { s \in Spans : spc[s] \in { "media", "p1" } }
    /\ escaped = {}
    /\ (\A s \in Spans : spc[s] \in { "new", "started", "done" }) => pending = {}

\* all operations have settled, one of them failed and was logged, another
\* was dropped by the predicate
C6_Witness ==
    /\ \A s \in Spans : spc[s] = "done"
    /\ \E s \in Spans : p1[s] = "rejected" /\ s \in logged
    /\ \E s \in Spans : ShouldDrop(predOut[s])

\* C7: when onEnd returns, the span's operation is in the pending set and
\* has not settled, mediaService.process has not settled, no upload of the
\* span has completed and the span has not been forwarded.
C7_OnEndReturnsImmediately ==
    [][\A s \in Spans :
          (spc[s] = "started" /\ spc'[s] # "started") =>
              /\ s \in pending'
              /\ spc'[s] \in { "media", "p1" }
              /\ exported'[s] = 0
              /\ upl'[s] = "none"]_vars

\* onEnd has returned while mediaService.process is still running
C7_Witness ==
    \E s \in Spans :
        spc[s] = "media" /\ s \in pending /\ s \in mediaCalls /\ exported[s] = 0

\* C8: a flush call goes from the wait for the pending operations to
\* mediaService.flush() only when all operations of its view have settled,
\* and from there to the wrapped processor only when the uploads the media
\* flush waits for are done; it calls the wrapped processor only then, and
\* calls forceFlush on it for forceFlush and shutdown for shutdown.
C8_FlushOrder ==
    [][\A f \in Flushes :
          /\ (fpc[f] = "awaitPending" /\ fpc'[f] # "awaitPending") =>
                /\ fpc'[f] = "awaitMedia"
                /\ \A s \in view[f] : Settled(s)
                /\ xcall'[f] = "none"
          /\ (fpc[f] = "awaitMedia" /\ fpc'[f] # "awaitMedia") =>
                /\ fpc'[f] = "awaitExporter"
                /\ \A s \in mview[f] : upl[s] = "done"
                /\ xcall[f] = "none" /\ xcall'[f] = fkind[f]
          /\ (xcall[f] = "none" /\ xcall'[f] # "none") => fpc[f] = "awaitMedia"
      ]_vars

\* a shutdown call that waited for operations and for uploads and has called
\* the wrapped processor's shutdown
C8_Witness ==
    \E f \in Flushes :
        /\ fpc[f] = "awaitExporter" /\ xcall[f] = "shutdown"
        /\ flog[f] = << "pending", "media" >>
        /\ \E s \in Spans : spc[s] = "done" /\ upl[s] = "done"

\* C9: no span is forwarded to the wrapped processor more than once, and
\* every flush call that was made eventually returns.
C9_FlushReentrant ==
    /\ [](\A s \in Spans : exported[s] <= 1)
    /\ \A f \in Flushes : (fpc[f] # "idle") ~> (fpc[f] = "returned")

\* two overlapping flush calls wait for the same forwarded span
C9_Witness ==
    /\ \A f \in { 1, 2 } : fpc[f] = "awaitPending"
    /\ \E s \in view[1] \cap view[2] : exported[s] = 1

\* C10: a flush call whose view of the pending set has settled returns,
\* whatever happens to the operations started after it took the view.
C10_FlushIgnoresLaterOperations ==
    \A f \in Flushes :
        (fpc[f] = "awaitPending" /\ \A s \in view[f] : spc[s] = "done")
            ~> (fpc[f] = "returned")

\* a flush call is past its wait for the pending operations while an
\* operation started after it took its view is still pending
C10_Witness ==
    \E f \in Flushes :
        /\ fpc[f] = "awaitMedia"
        /\ view[f] # {}
        /\ \E s \in pending : s \notin view[f]

\* C11: a span whose onEnd is called after shutdown has returned is handled
\* as any other: its operation is in the pending set until it settles and
\* is out of it afterwards, a failure of it is logged and no error leaves
\* onEnd.
C11_OnEndAfterShutdown ==
    \A s \in lateEnds :
        /\ s \notin escaped
        /\ spc[s] \in { "media", "p1" } => s \in pending
        /\ spc[s] = "done" =>
              /\ s \notin pending
              /\ p1[s] = "rejected" => s \in logged

\* a span ended after shutdown returned was passed to the wrapped processor,
\* which threw; the operation has settled
C11_Witness ==
    \E s \in lateEnds :
        spc[s] = "done" /\ p1[s] = "rejected" /\ exported[s] = 1

\* the span carries every agent attribute a resolved configuration always
\* has / the span carries no agent attribute key
FullyStamped(s) ==
    /\ stamp[s].agentId # UNDEFINED
    /\ stamp[s].agentName # UNDEFINED
    /\ stamp[s].projectId # UNDEFINED

Unstamped(s) == stamp[s] = NoConfig

StartsNow(s) == spc[s] = "new" /\ spc'[s] = "started"
EndsNow(s) == spc[s] = "started" /\ spc'[s] # "started"

\* C12: a span started while the agent configuration is resolved gets the
\* agent attributes at onStart, a span started in any other state gets
\* none, and no later step touches the agent attributes of a started span.
C12_TaggedAtStartOnly ==
    [][\A s \in Spans :
          /\ (StartsNow(s) /\ agentState = "resolved") => FullyStamped(s)'
          /\ (StartsNow(s) /\ agentState # "resolved") => Unstamped(s)'
          /\ spc[s] # "new" => stamp'[s] = stamp[s]]_vars

\* a span started during the resolution has gone through its end-hook
\* untagged after the resolution completed, another span is tagged
C12_Witness ==
    /\ agentState = "resolved"
    /\ \E s, t \in Spans :
          /\ spc[s] = "done" /\ exported[s] = 1 /\ Unstamped(s)
          /\ FullyStamped(t)

\* the attributes a span of this processor is to carry once the agent
\* configuration is resolved: the trimmed name, the trimmed display name if
\* one is set, the project id and the id hashed from name and project id
MatchesResolved(s) ==
    /\ stamp[s] = resolvedAgentConfig
    /\ stamp[s].agentName = Str(Trim(agentCfg.agentName.v))
    /\ IsString(stamp[s].projectId)
    /\ stamp[s].agentId =
          blake2b64(stamp[s].agentName.v, stamp[s].projectId.v)
    /\ IsString(agentCfg.agentDisplayName) =>
          stamp[s].agentDisplayName = Str(Trim(agentCfg.agentDisplayName.v))
    /\ ~IsString(agentCfg.agentDisplayName) =>
          stamp[s].agentDisplayName = UNDEFINED

\* C13 as stated: every span ended after the agent resolution completed
\* carries the agent attributes of the resolved configuration.
C13_EndedAfterResolutionTagged ==
    \A s \in Spans : agentAtEnd[s] = "resolved" => MatchesResolved(s)

\* C13: every span started after the agent resolution completed carries
\* agent_id, agent_name, agent_display_name (if set) and project_id with
\* the values of the resolved configuration, up to the exporter.
C13_StartedAfterResolutionTagged ==
    \A s \in Spans : agentAtStart[s] = "resolved" => MatchesResolved(s)

\* a span started and ended after the resolution of a configuration with a
\* display name has reached the exporter
C13_Witness ==
    \E s \in Spans :
        /\ agentAtStart[s] = "resolved" /\ agentAtEnd[s] = "resolved"
        /\ exported[s] = 1
        /\ stamp[s].agentDisplayName # UNDEFINED

\* C14: a span whose onEnd is called while no agent configuration is
\* resolved (none given, resolution in flight, resolution failed) carries
\* no agent attribute key, at its end and when it reaches the exporter.
C14_EndedUnresolvedUntagged ==
    \A s \in Spans :
        agentAtEnd[s] \in { "uninit", "resolving", "failed" } => Unstamped(s)

\* a span ended during the resolution has reached the exporter after the
\* resolution completed
C14_Witness ==
    /\ agentState = "resolved"
    /\ \E s \in Spans : agentAtEnd[s] = "resolving" /\ exported[s] = 1

\* C15: any two spans this processor tagged carry the same agent_id, the
\* same agent_name and the same project_id.
C15_SameIdentityOnAllTagged ==
    \A s, t \in Spans :
        (~Unstamped(s) /\ ~Unstamped(t)) =>
            /\ stamp[s].agentId = stamp[t].agentId
            /\ stamp[s].agentName = stamp[t].agentName
            /\ stamp[s].projectId = stamp[t].projectId

\* two spans were tagged, both reached the exporter
C15_Witness ==
    \E s, t \in Spans :
        /\ s # t
        /\ FullyStamped(s) /\ FullyStamped(t)
        /\ exported[s] = 1 /\ exported[t] = 1

\* C16: with an agent configuration the resolution has left Uninitialized
\* when the constructor returns; Resolving is left once, for Resolved or
\* Failed; Resolved and Failed are never left; a resolved configuration is
\* never overwritten; every span started in Resolved is tagged.
C16_OneShotResolution ==
    /\ [](agentCfg # NoAgentConfig <=> agentState # "uninit")
    /\ [](agentState = "resolved" <=> resolvedAgentConfig # NoConfig)
    /\ [][/\ agentState = "resolving" =>
                agentState' \in { "resolving", "resolved", "failed" }
          /\ agentState # "resolving" =>
                /\ agentState' = agentState
                /\ resolvedAgentConfig' = resolvedAgentConfig
          /\ \A s \in Spans :
                (StartsNow(s) /\ agentState = "resolved") =>
                    FullyStamped(s)']_vars

\* the resolution went through Resolving to Resolved: one span was started
\* before it completed, another after
C16_Witness ==
    /\ agentState = "resolved" /\ fetches = 1
    /\ \E s, t \in Spans :
          agentAtStart[s] = "resolving" /\ agentAtStart[t] = "resolved"

\* C17: a failed resolution has logged an error and left no configuration,
\* no span is tagged, the project API was called at most once, and every
\* span ended after the failure whose processing completed was forwarded.
C17_FailedResolution ==
    /\ fetches <= 1
    /\ agentState = "failed" =>
          /\ agentLog # {}
          /\ resolvedAgentConfig = NoConfig
          /\ \A s \in Spans :
                /\ Unstamped(s)
                /\ (agentAtEnd[s] = "failed" /\ spc[s] = "done") =>
                      exported[s] = 1

\* the resolution failed on the agent name after the project was fetched; a
\* span started and ended after the failure was forwarded
C17_Witness ==
    /\ agentState = "failed" /\ fetches = 1 /\ "init-failed" \in agentLog
    /\ \E s \in Spans :
          /\ agentAtStart[s] = "failed" /\ spc[s] = "done"
          /\ exported[s] = 1

\* what the specification of generateAgentId asks of an argument: a string
\* that is not empty after trimming
ValidArgument(x) == IsString(x) /\ Trim(x.v) # << >>

\* C19: generateAgentId fails, and returns no id, whenever agentName or
\* projectId is no string or is empty after trimming.
C19_InvalidArgumentRejected ==
    \A i \in 1..Len(probe.ids) :
        (~ValidArgument(probe.agentName) \/ ~ValidArgument(probe.projectId))
            => ~probe.ids[i].ok

\* C20: the resolutions of configurations that differ in agentDisplayName
\* only, by resolveAgentConfig or resolveAgentConfigWithProjectId, succeed
\* or fail together and give the same agentId.
C20_DisplayNameNotHashed ==
    \A i, j \in 1..Len(probe.resolutions) :
        LET a == probe.resolutions[i].result
            b == probe.resolutions[j].result
        IN  /\ a.ok = b.ok
            /\ a.ok => a.value.agentId = b.value.agentId

\* two configurations with different display names were resolved
C20_Witness ==
    /\ Len(probe.resolutions) = 2
    /\ probe.resolutions[1].result.ok /\ probe.resolutions[2].result.ok
    /\ probe.resolutions[1].agentDisplayName
          # probe.resolutions[2].agentDisplayName
    /\ probe.resolutions[1].result.value.agentDisplayName
          # probe.resolutions[2].result.value.agentDisplayName

\* C21: the id generateAgentId returns is the hash of the first 255
\* characters of the trimmed agent name, and of the whole trimmed name when
\* it has at most 255 characters, followed by the trimmed project id; agent
\* names with the same first 255 characters so give the same id.
C21_TruncatedBeforeHashing ==
    \A i \in 1..Len(probe.ids) :
        probe.ids[i].ok =>
            LET name == Trim(probe.agentName.v)
                hashed == IF Len(name) > 255 THEN SubSeq(name, 1, 255)
                          ELSE name
            IN  probe.ids[i].value.v = hashed \o Trim(probe.projectId.v)

\* an id was generated for a name of more than 255 characters
C21_Witness ==
    /\ Len(probe.ids) = 1 /\ probe.ids[1].ok
    /\ Len(Trim(probe.agentName.v)) > 255

\* the agent name as it is hashed: trimmed, cut to 255 characters
TrimmedName(c) ==
    LET name == Trim(c.agentName.v)
    IN  IF Len(name) > 255 THEN SubSeq(name, 1, 255) ELSE name

\* C22 as stated: two calls of generateAgentId with different agent names
\* (after trim and truncation) and the same project id, or with the same
\* agent name and different project ids, return different ids.
C22_DistinctIds ==
    \A i, j \in 1..Len(probe.calls) :
        LET a == probe.calls[i]
            b == probe.calls[j]
        IN  (a.result.ok /\ b.result.ok) =>
              /\ (TrimmedName(a) # TrimmedName(b)
                    /\ a.projectId = b.projectId)
                    => a.result.value # b.result.value
              /\ (a.agentName = b.agentName
                    /\ a.projectId # b.projectId)
                    => a.result.value # b.result.value

\* C22: two calls of generateAgentId with different agent names (after
\* trim and truncation) and the same project id, or with the same agent
\* name and project ids that differ after trimming, return different ids.
C22_DistinctIdsAfterTrim ==
    \A i, j \in 1..Len(probe.calls) :
        LET a == probe.calls[i]
            b == probe.calls[j]
        IN  (a.result.ok /\ b.result.ok) =>
              /\ (TrimmedName(a) # TrimmedName(b)
                    /\ a.projectId = b.projectId)
                    => a.result.value # b.result.value
              /\ (a.agentName = b.agentName
                    /\ Trim(a.projectId.v) # Trim(b.projectId.v))
                    => a.result.value # b.result.value

\* ids were generated for one agent name under two project ids that differ
\* after trimming
C22_Witness ==
    /\ Len(probe.calls) = 2
    /\ probe.calls[1].result.ok /\ probe.calls[2].result.ok
    /\ probe.calls[1].agentName = probe.calls[2].agentName
    /\ Trim(probe.calls[1].projectId.v) # Trim(probe.calls[2].projectId.v)

\* an empty or whitespace-only string
BlankString(x) == IsString(x) /\ Trim(x.v) = << >>

\* what C23 asks of one result of a validation or resolution
RequiredChecked(r) ==
    /\ BlankString(probe.projectId) =>
          ~r.ok /\ r.error = "projectId is required"
    /\ (ValidArgument(probe.projectId) /\ BlankString(probe.agentName)) =>
          ~r.ok /\ r.error = "agentName is required"

\* C23: validateAgentConfig, resolveAgentConfig and
\* resolveAgentConfigWithProjectId fail with "projectId is required" for an
\* empty or whitespace-only projectId, else with "agentName is required"
\* for an empty or whitespace-only agentName; a configuration that is
\* returned holds the trimmed agentName, agentDisplayName and projectId.
C23_RequiredAndTrimmed ==
    /\ \A i \in 1..Len(probe.validations) :
          RequiredChecked(probe.validations[i])
    /\ \A i \in 1..Len(probe.resolutions) :
          LET c == probe.resolutions[i]
          IN  /\ RequiredChecked(c.result)
              /\ c.result.ok =>
                    /\ c.result.value.agentName = Str(Trim(probe.agentName.v))
                    /\ c.result.value.projectId = Str(Trim(probe.projectId.v))
                    /\ c.result.value.agentDisplayName =
                          IF IsString(c.agentDisplayName)
                          THEN Str(Trim(c.agentDisplayName.v))
                          ELSE UNDEFINED

\* a whitespace-only agent name under a padded project id was validated and
\* resolved twice
C23_Witness ==
    /\ BlankString(probe.agentName) /\ probe.agentName.v # << >>
    /\ ValidArgument(probe.projectId)
    /\ Trim(probe.projectId.v) # probe.projectId.v
    /\ Len(probe.validations) = 1 /\ Len(probe.resolutions) = 2

\* C24: the attributes createObservationAttributes returns hold the prompt
\* name and the prompt version key only for a prompt that is given and no
\* fallback, with the name and version of that prompt; with a fallback
\* prompt or none neither key is in the result.
C24_PromptLinkedUnlessFallback ==
    \A i \in 1..Len(probe.observations) :
        LET o == probe.observations[i]
            p == o.attributes.prompt
        IN  /\ (~p.given \/ p.isFallback = "true") =>
                  /\ o.result[OBSERVATION_PROMPT_NAME] = ABSENT
                  /\ o.result[OBSERVATION_PROMPT_VERSION] = ABSENT
            /\ (p.given /\ p.isFallback = "false") =>
                  /\ p.name # NULLISH =>
                        o.result[OBSERVATION_PROMPT_NAME] = p.name
                  /\ p.version # NULLISH =>
                        o.result[OBSERVATION_PROMPT_VERSION] = p.version

\* attributes were built for a named fallback prompt, with a metadata field
\* called prompt.name
C24_Witness ==
    \E i \in 1..Len(probe.observations) :
        LET o == probe.observations[i]
        IN  /\ o.attributes.prompt.given
            /\ o.attributes.prompt.isFallback = "true"
            /\ o.attributes.prompt.name # NULLISH
            /\ o.result[OBSERVATION_METADATA_PROMPT_NAME] = RAW

\* the provider passed to the most recent setAntsPlatformTracerProvider
\* before call i, "null" when there was none
RECURSIVE LastSet(_)
LastSet(i) ==
    IF i <= 1 THEN "null"
    ELSE IF global.log[i - 1].op = "set" THEN global.log[i - 1].provider
    ELSE LastSet(i - 1)

\* C25: getAntsPlatformTracerProvider returns the provider of the most
\* recent setAntsPlatformTracerProvider call when that was not null, and
\* the ambient provider otherwise; the state slot is created once, and is
\* there from the first access on.
C25_IsolatedProviderPrecedence ==
    /\ \A i \in 1..Len(global.log) :
          global.log[i].op = "get" =>
              global.log[i].provider =
                  IF LastSet(i) # "null" THEN LastSet(i) ELSE GLOBAL_PROVIDER
    /\ global.created <= 1
    /\ global.log # << >> => global.slot

\* the order of the steps of processEndedSpan; the predicate step is there
\* only when a predicate is configured
StepOrder ==
    (IF hasPred THEN << "predicate" >> ELSE << >>) \o
    << "mask", "media", "media settled", "snapshot", "forward" >>

IsPrefix(a, b) == Len(a) <= Len(b) /\ a = SubSeq(b, 1, Len(a))

\* C26: the steps done for one span are, at any time, an initial part of
\* predicate, mask, media processing (called, then settled), snapshot,
\* forward: each step is taken after the one before it has finished.
C26_StepsInOrder ==
    \A s \in Spans : IsPrefix(steps[s], StepOrder)

\* a span has been forwarded while the media processing of a span ended
\* before it is still in flight
C26_Witness ==
    \E s, t \in Spans :
        /\ s < t
        /\ steps[s] # << >> /\ steps[s][Len(steps[s])] = "media"
        /\ steps[t] = StepOrder

\* C27: once a span has been handed to the wrapped processor, no step
\* changes its attributes: not the mask, not the media replacement, not
\* the agent tagging.
C27_NoWriteAfterForward ==
    [][\A s \in Spans :
          exported[s] >= 1 =>
              /\ attrs'[s] = attrs[s]
              /\ stamp'[s] = stamp[s]]_vars

\* a span whose media payload was replaced was forwarded untagged; since it
\* started, the agent resolution has completed, and its upload and its
\* operation have settled
C27_Witness ==
    \E s \in Spans :
        /\ exported[s] = 1 /\ spc[s] = "done" /\ upl[s] = "done"
        /\ attrs[s] # endAttrs[s]
        /\ Unstamped(s) /\ agentState = "resolved"

\* the debug snapshot of span s was begun
SnapshotBegun(s) == \E i \in 1..Len(steps[s]) : steps[s][i] = "snapshot"

\* C28: a span whose processing reached the debug snapshot is forwarded to
\* the wrapped processor, whether building the snapshot succeeds or not.
C28_SnapshotHasNoEffect ==
    \A s \in Spans : SnapshotBegun(s) => exported[s] = 1

\* C29: the wrapped processor's onEnd is called at most once for a span,
\* and exactly once when the predicate is absent or did not reject the span
\* and its processEndedSpan ended without an error.
C29_ForwardedOnce ==
    \A s \in Spans :
        /\ exported[s] <= 1
        /\ (Settled(s) /\ Accepted(s) /\ p1[s] = "fulfilled") =>
              exported[s] = 1

\* a span the predicate accepted was masked and forwarded, its operation
\* has settled; the operation of another span has failed
C29_Witness ==
    \E s, t \in Spans :
        /\ Settled(s) /\ predOut[s] = "true" /\ p1[s] = "fulfilled"
        /\ MaskCallsOf(s) # {} /\ exported[s] = 1
        /\ Settled(t) /\ p1[t] = "rejected" /\ exported[t] = 0

\* C30: with an agent configuration, a forceFlush or shutdown call is past
\* its wait for the agent promise only when the agent resolution is no
\* longer in flight, it takes its view of the pending set only then, and
\* once the resolution has settled every call that was made returns.
C30_FlushWaitsForAgent ==
    /\ [](\A f \in Flushes :
            fpc[f] \notin { "idle", "awaitAgent" } => agentState # "resolving")
    /\ [][\A f \in Flushes :
            view'[f] # view[f] => agentState # "resolving"]_vars
    /\ \A f \in Flushes :
          (fpc[f] # "idle" /\ agentState # "resolving")
              ~> (fpc[f] = "returned")

\* a shutdown call made while the resolution was in flight has waited for
\* the agent promise, for an operation, for the media flush and for the
\* wrapped processor, and has returned
C30_Witness ==
    \E f \in Flushes :
        /\ fpc[f] = "returned" /\ fkind[f] = "shutdown"
        /\ flog[f] = << "agent", "pending", "media", "exporter" >>
        /\ \E s \in Spans : exported[s] = 1

\* the promise of mediaService.process(span) was rejected for span s: the
\* steps of s stop at the settlement of the media processing
MediaRejected(s) ==
    steps[s] # << >> /\ steps[s][Len(steps[s])] = "media settled"

\* C31: a rejection of mediaService.process for a span never reaches the
\* caller of onEnd; once the operation has settled the rejection is logged,
\* the operation is out of the pending set, and the span has been forwarded
\* to the wrapped processor.
C31_MediaFailureNonFatal ==
    \A s \in Spans :
        MediaRejected(s) =>
            /\ s \notin escaped
            /\ Settled(s) => /\ s \in logged
                             /\ s \notin pending
                             /\ exported[s] = 1

\* C32: on a processor with a mask function, every input, output and
\* metadata attribute a forwarded span carried when it ended was passed to
\* the mask function, the '<metadata key>.<field>' attributes of flattened
\* metadata included.
C32_EveryAttributeMasked ==
    hasMask =>
        \A s \in Spans :
            exported[s] >= 1 =>
                \A k \in Keys :
                    endAttrs[s][k] # ABSENT => <<s, k>> \in maskCalls

\* the processor holds a test project id, whatever it is
TestProjectIdSupplied == testProjectId # UNDEFINED

\* the project API is never called, the resolution is Resolved in every
\* state from the constructor's return on, every span started is tagged
ResolvedAtConstruction ==
    /\ fetches = 0
    /\ agentState = "resolved"
    /\ \A s \in Spans : spc[s] # "new" => FullyStamped(s)

\* C33 as stated: on a processor constructed with a valid agent
\* configuration and a test project id the resolution needs no suspension
\* point and is Resolved when the constructor returns, and every span
\* started is tagged.
C33_ResolvedAtConstruction ==
    (ValidArgument(agentCfg.agentName) /\ TestProjectIdSupplied) =>
        ResolvedAtConstruction

\* C33, amended: the same for a test project id that is not blank.
C33_ResolvedAtConstructionNotBlank ==
    (ValidArgument(agentCfg.agentName) /\ ValidArgument(testProjectId)) =>
        ResolvedAtConstruction

\* the first span started on such a processor, with a padded name and a
\* display name, was tagged at its start and has been forwarded
C33_Witness ==
    /\ ValidArgument(testProjectId)
    /\ agentCfg.agentName = Str(<< " ", "a" >>)
    /\ agentCfg.agentDisplayName # UNDEFINED
    /\ spc[1] = "done" /\ exported[1] = 1 /\ spc[2] = "new"
    /\ agentAtStart[1] = "resolved" /\ FullyStamped(1)

\* two calls were given different pairs: the agent names differ after trim
\* and truncation, or the project ids differ after trimming
PairsDiffer(a, b) ==
    \/ TrimmedName(a) # TrimmedName(b)
    \/ Trim(a.projectId.v) # Trim(b.projectId.v)

\* C34 as stated: two calls of generateAgentId with pairs that differ after
\* trimming and truncation hash different inputs.
C34_HashInputIdentifiesPair ==
    \A i, j \in 1..Len(probe.calls) :
        LET a == probe.calls[i]
            b == probe.calls[j]
        IN  (a.result.ok /\ b.result.ok /\ PairsDiffer(a, b)) =>
                a.result.value.v # b.result.value.v

\* C34, amended: two calls of generateAgentId with pairs that differ after
\* trimming and truncation, and whose agent names or whose project ids are
\* of equal length then, hash different inputs.
C34_HashInputIdentifiesAlignedPair ==
    \A i, j \in 1..Len(probe.calls) :
        LET a == probe.calls[i]
            b == probe.calls[j]
        IN  (/\ a.result.ok /\ b.result.ok /\ PairsDiffer(a, b)
             /\ \/ Len(TrimmedName(a)) = Len(TrimmedName(b))
                \/ Len(Trim(a.projectId.v)) = Len(Trim(b.projectId.v))) =>
                a.result.value.v # b.result.value.v

\* ids were generated for two pairs that differ in the agent name and in
\* the project id, the names being of equal length
C34_Witness ==
    /\ Len(probe.calls) = 2
    /\ probe.calls[1].result.ok /\ probe.calls[2].result.ok
    /\ TrimmedName(probe.calls[1]) # TrimmedName(probe.calls[2])
    /\ Len(TrimmedName(probe.calls[1])) = Len(TrimmedName(probe.calls[2]))
    /\ Trim(probe.calls[1].projectId.v) # Trim(probe.calls[2].projectId.v)

\* the step is a call of the handler `name` for run id r
Handles(name, r) ==
    /\ handler'.clock = handler.clock + 1
    /\ handler'.last.name = name /\ handler'.last.run = r

\* the step ends the observation registered under run id r
EndsRun(r) ==
    /\ handler.runMap[r] # "none"
    /\ handler'.runMap[r] = "none"
    /\ handler'.ended[r] = handler.ended[r] + 1

\* C35: a handleLLMEnd for a run id of the run map ends the generation and
\* removes the run id, whatever usage information the result carries; a
\* handleLLMEnd for a run id that is not in the run map changes neither
\* the run map nor the completion start times nor any observation.
C35_LLMEndClosesRun ==
    [][\A r \in Runs :
          Handles("handleLLMEnd", r) =>
              IF handler.runMap[r] # "none"
              THEN EndsRun(r)
              ELSE /\ handler'.runMap = handler.runMap
                   /\ handler'.completionStartTimes =
                         handler.completionStartTimes
                   /\ handler'.ended = handler.ended
                   /\ handler'.usageDetails = handler.usageDetails]_vars

\* C36: the completion start time of a run is set only by handleLLMNewToken
\* and only when there is none, an entry that is there is not changed by a
\* token, and a step in which handleLLMEnd or handleLLMError ends the run
\* leaves no entry for its run id.
C36_CompletionStartOnce ==
    [][\A r \in Runs :
          /\ (handler'.completionStartTimes[r] # 0
                /\ handler'.completionStartTimes[r]
                      # handler.completionStartTimes[r]) =>
                /\ Handles("handleLLMNewToken", r)
                /\ handler.completionStartTimes[r] = 0
          /\ ((Handles("handleLLMEnd", r) \/ Handles("handleLLMError", r))
                /\ EndsRun(r)) =>
                handler'.completionStartTimes[r] = 0]_vars

\* C38: no handler has returned a rejected promise, and no handler has
\* left the rejected promise of a handler it called unhandled.
C38_HandlersContainFailures ==
    handler.rejected = {} /\ handler.unhandled = {}

\* the sum of the entries of a token details object that are numbers
RECURSIVE SumOfNumbers(_)
SumOfNumbers(details) ==
    IF details = << >> THEN 0
    ELSE (IF Head(details).num THEN Head(details).val ELSE 0)
            + SumOfNumbers(Tail(details))

\* what C37 asks of the usageDetails reported for usage metadata u
UsageReported(u, reported) ==
    /\ reported.input =
          Max(0, u.input_tokens - SumOfNumbers(u.input_token_details))
    /\ reported.output =
          Max(0, u.output_tokens - SumOfNumbers(u.output_token_details))
    /\ reported.input >= 0 /\ reported.output >= 0
    /\ \A i \in 1..Len(u.input_token_details) :
          LET e == u.input_token_details[i]
          IN  [prefix |-> "input", key |-> e.key, num |-> e.num,
               val |-> e.val] \in reported.details
    /\ \A i \in 1..Len(u.output_token_details) :
          LET e == u.output_token_details[i]
          IN  [prefix |-> "output", key |-> e.key, num |-> e.num,
               val |-> e.val] \in reported.details

\* C37: when handleLLMEnd ends a generation, the input usage it reports is
\* the input token total less the numeric entries of input_token_details
\* and not below 0, likewise the output usage with output_token_details;
\* every entry is reported under 'input_<key>' / 'output_<key>'.
C37_UsageLessDetails ==
    [][\A r \in Runs :
          (Handles("handleLLMEnd", r) /\ EndsRun(r)) =>
              UsageReported(handler'.output.usage_metadata,
                            handler'.usageDetails[r])]_vars

\* a generation was ended with two numeric input details that together
\* exceed the input total: 0 is reported
C37_Witness ==
    /\ handler.last.name = "handleLLMEnd" /\ handler.ended[1] = 1
    /\ handler.runMap[1] = "none"
    /\ LET u == handler.output.usage_metadata
       IN  /\ Len(u.input_token_details) = 2
           /\ \A i \in 1..2 : u.input_token_details[i].num
           /\ u.input_tokens > 0
           /\ SumOfNumbers(u.input_token_details) > u.input_tokens
    /\ handler.usageDetails[1].input = 0

\* the attribute key `${prefix}.${key}` of the one field of a metadata object
FieldKey(metadata) ==
    IF metadata.field = "k" THEN OBSERVATION_METADATA_FIELD
    ELSE OBSERVATION_METADATA_PROMPT_NAME

\* C39: for metadata that is a plain object, the field, when its value is
\* neither null nor undefined, is in the attributes under
\* '<metadata key>.<field>' and under no other metadata key: a string as
\* it is, an object as its JSON text and not flattened further.
C39_FlatteningKeepsFields ==
    \A i \in 1..Len(probe.observations) :
        LET o == probe.observations[i]
            m == o.attributes.metadata
        IN  (m.kind = "object" /\ m.value # NULLISH) =>
                /\ o.result[FieldKey(m)] # ABSENT
                /\ m.value \in { RAW, EMPTY_STRING } =>
                      o.result[FieldKey(m)] = m.value
                /\ m.value = PLAIN_OBJECT => o.result[FieldKey(m)] = JSON_TEXT
                /\ \A k \in { OBSERVATION_METADATA, OBSERVATION_METADATA_FIELD,
                              OBSERVATION_METADATA_PROMPT_NAME }
                        \ { FieldKey(m) } : o.result[k] = ABSENT

====
